---- MODULE Spec2Model ----
(***************************************************************************)
(* Lineup / attribution engine of the NBA 3PT luck adjustment repository:  *)
(* the scan of one game's action list by compute_adjusted_onoff_for_game   *)
(* (src/src/onoff.py) and the shot expectation model it calls              *)
(* (src/src/onoff.py, src/src/adjust.py).                                  *)
(*                                                                         *)
(* Number representation.  Python floats are modelled in fixed point:      *)
(*   - probabilities in thousandths (150 = 0.15),                          *)
(*   - orb_rate and ppp in hundredths, orb_rate*ppp in 1/10000,            *)
(*   - adjusted points in units of 1/PointScale of a point,                *)
(*   - A_r and M_r in units of AttemptUnit attempts.                       *)
(* Raw points, seconds and scores are plain integers.                      *)
(***************************************************************************)
EXTENDS Integers, Sequences, FiniteSets, TLC

VARIABLES
    \* ---- inputs of compute_adjusted_onoff_for_game
    actions,          \* the sorted action list of the game (onoff.py:201)
    player_state,     \* player_id -> [A_r, M_r] (read-only during the game)
    orb_rate, ppp,    \* configuration, in hundredths
    \* ---- locals of compute_adjusted_onoff_for_game
    pc,               \* "scan" while the loop runs, "done" after the return
    i,                \* loop index, 0-based as in the code
    home_id, away_id,
    lineups,          \* team id -> set of player ids
    stats,            \* player id -> PlayerOnOff
    prev_elapsed, prev_home, prev_away, adj_home, adj_away,
    stint_start,      \* the stint_start_* locals, as one record
    last_period, last_clock,
    stints,           \* list of emitted stints
    rows,             \* the per-player output rows (set when pc = "done")
    \* ---- history variables (not in the code; they record what the scan did)
    boundary,         \* running values when _close_stint was last called
    on_court,         \* lineup pairs on court at the actions since that call
    dropped_seconds,  \* seconds of intervals closed with a lineup not of five
    \* ---- a pure function applied on its own: its input and its result
    q_in, q_out,
    \* ---- the output of an earlier call on the same action list, if any
    first_run,
    \* ---- run_onoff.py under backfill_multiseason.py
    feed_kind,        \* game id -> what the game's play-by-play feed holds
    half_life_3pa,    \* cfg["half_life_3pa"]
    plan,             \* the run_onoff.py invocations made, one after the other
    run,              \* index of the run_onoff.py invocation of the backfill
    dpc,              \* "load", "loop" or "exit": position in main
    todo,             \* the (date, game id) pairs the two loops still visit
    processed_games,  \* game ids of adjusted_onoff.csv when the run started
    run_rows,         \* the list `rows`: games whose on/off rows were appended
    stint_rows,       \* games whose stint rows were appended
    out_file,         \* game ids with rows in adjusted_onoff.csv
    stint_file,       \* game ids with rows in stints.csv
    applied,          \* the decay updates applied to player_state, in order
    raised            \* games whose step raised in the current run

scan_vars == << actions, player_state, orb_rate, ppp, pc, i, home_id, away_id,
                lineups, stats, prev_elapsed, prev_home, prev_away, adj_home,
                adj_away, stint_start, last_period, last_clock, stints, rows,
                boundary, on_court, dropped_seconds, q_in, q_out, first_run >>

driver_vars == << feed_kind, half_life_3pa, plan, run, dpc, todo, processed_games,
                 run_rows, stint_rows, out_file, stint_file, applied, raised >>

\* main is not running
DriverIdle ==
    /\ feed_kind = << >>
    /\ half_life_3pa = 0
    /\ plan = << >>
    /\ run = 0
    /\ dpc = "exit"
    /\ todo = << >>
    /\ processed_games = {}
    /\ run_rows = << >>
    /\ stint_rows = << >>
    /\ out_file = {}
    /\ stint_file = {}
    /\ applied = << >>
    /\ raised = {}

vars == << actions, player_state, orb_rate, ppp, pc, i, home_id, away_id,
           lineups, stats, prev_elapsed, prev_home, prev_away, adj_home,
           adj_away, stint_start, last_period, last_clock, stints, rows,
           boundary, on_court, dropped_seconds, q_in, q_out, first_run, driver_vars >>

(***************************************************************************)
(* Bounds of the model                                                     *)
(***************************************************************************)
MaxActions == 3          \* longest action list scanned
MaxUnits == 5            \* largest A_r, M_r drawn, in AttemptUnit attempts
MaxKeyed == 2            \* longest feed whose actions carry sort numbers
LastDay == 3             \* last day of the backfill window
FirstDay == 1            \* first day of the backfill window
MonthLen == 2            \* days in a month of the model's calendar
MaxPeriod == 7           \* last period drawn: three overtimes
MaxPhrases == 2          \* most phrases in a descriptor drawn
MaxStints == 2           \* most stint rows given to the RAPM design matrix
StrBase == 1000          \* offset of the values standing for strings of digits

(***************************************************************************)
(* Representation                                                          *)
(***************************************************************************)
None == -1               \* Python None in an optional integer field
PointScale == 1000 * 10000   \* adjusted-point units per point
AttemptUnit == 1000 \div 4   \* attempts per unit of A_r / M_r: a quarter of
                             \* SCALE_ATTEMPTS, so the prior scale is exact

Max(a, b) == IF a >= b THEN a ELSE b
Min(a, b) == IF a <= b THEN a ELSE b
Abs(x) == IF x < 0 THEN 0 - x ELSE x

\* An identifier of the feed is a JSON number or a string of digits.  The
\* string of the digits of n is the value StrBase + n, which differs from
\* every number of the model, as a Python str differs from every int.
Str(n) == StrBase + n

\* int(x) for a number or a string of digits
PyInt(x) == IF x >= StrBase THEN x - StrBase ELSE x

\* int(x or 0): None and 0 both give 0
IntOrZero(x) == IF x = None THEN 0 ELSE PyInt(x)

(***************************************************************************)
(* Clock strings.  "PT<mm>M<ss>.00S" is [kind |-> "ms"], "PT<ss>.00S" is   *)
(* [kind |-> "s"], a missing or empty clock is [kind |-> "none"], any text *)
(* int()/float() reject is [kind |-> "bad"].                               *)
(***************************************************************************)
Clock(mm, ss) == [kind |-> "ms", mm |-> mm, ss |-> ss]
ClockS(ss) == [kind |-> "s", mm |-> 0, ss |-> ss]
NoClock == [kind |-> "none", mm |-> 0, ss |-> 0]
BadClock == [kind |-> "bad", mm |-> 0, ss |-> 0]
TipOffClock == Clock(12, 0)

_period_length_seconds(period) == IF period <= 4 THEN 12 * 60 ELSE 5 * 60

_parse_clock_or_zero(clock_str) ==
    CASE clock_str.kind = "ms" -> clock_str.mm * 60 + clock_str.ss
      [] clock_str.kind = "s" -> clock_str.ss
      [] OTHER -> 0
_parse_clock_seconds(clock_str) ==
    CASE clock_str.kind = "none" -> None
      [] clock_str.kind = "bad" -> None
      [] clock_str.kind = "ms" -> clock_str.mm * 60 + clock_str.ss
      [] OTHER -> clock_str.ss

_elapsed_overtime_from_4(period, clock_str) ==
    IF period = None THEN None
    ELSE LET remaining == _parse_clock_or_zero(clock_str) IN
         IF clock_str.kind \in {"none", "bad"} THEN None
         ELSE LET elapsed_prev ==
                    IF period > 1
                    THEN Min(period - 1, 4) * 12 * 60
                         + (IF period > 4 THEN (period - 4) * 5 * 60 ELSE 0)
                    ELSE 0
              IN elapsed_prev + ((IF period <= 4 THEN 12 * 60 ELSE 5 * 60) - remaining)
_elapsed_game_seconds(period, clock_str) ==
    IF period = None THEN None
    ELSE LET remaining == _parse_clock_seconds(clock_str) IN
         IF remaining = None THEN None
         ELSE LET elapsed_prev ==
                    IF period > 1
                    THEN Min(period - 1, 4) * 12 * 60
                         + (IF period > 5 THEN (period - 5) * 5 * 60 ELSE 0)
                    ELSE 0
              IN elapsed_prev + (_period_length_seconds(period) - remaining)

(***************************************************************************)
(* Shot classification.  A free text is the sequence of the phrases it     *)
(* holds, lower-cased; <<>> is the empty string.                           *)
(***************************************************************************)
Has(text, phrase) == \E k \in 1..Len(text) : text[k] = phrase

_classify_pullup_first(action) ==
    LET text == IF action.descriptor # <<>> THEN action.descriptor
                ELSE action.description
    IN  IF Has(text, "pullup") \/ Has(text, "pull-up") \/ Has(text, "pull up")
        THEN "pullup"
        ELSE IF Has(text, "step back") \/ Has(text, "stepback") THEN "stepback"
        ELSE IF Has(text, "running") \/ Has(text, "driving") THEN "running"
        ELSE IF Has(text, "fadeaway") \/ Has(text, "fade away") THEN "fadeaway"
        ELSE IF Has(text, "turnaround") \/ Has(text, "turn around") THEN "turnaround"
        ELSE "catch_shoot"

_classify_shot_type(action) ==
    LET text == IF action.descriptor # <<>> THEN action.descriptor
                ELSE action.description
    IN  IF Has(text, "step back") \/ Has(text, "stepback") THEN "stepback"
        ELSE IF Has(text, "pullup") \/ Has(text, "pull-up") \/ Has(text, "pull up")
             THEN "pullup"
        ELSE IF Has(text, "running") \/ Has(text, "driving") THEN "running"
        ELSE IF Has(text, "fadeaway") \/ Has(text, "fade away") THEN "fadeaway"
        ELSE IF Has(text, "turnaround") \/ Has(text, "turn around") THEN "turnaround"
        ELSE "catch_shoot"

_classify_area(action) ==
    IF action.xLegacy # None /\ action.yLegacy # None
       /\ Abs(action.xLegacy) >= 220 /\ action.yLegacy <= 100
    THEN "corner"
    ELSE "above_break"

(***************************************************************************)
(* Shot expectation model (adjust.py, onoff.py:172-188)                    *)
(***************************************************************************)
\* Sliding prior parameters.  mu in hundredths.
MU_MIN == 32
MU_MAX == 36
KAPPA_MIN == 200
KAPPA_MAX == 300
SCALE_ATTEMPTS == 1000
\* Shot mix multipliers, in hundredths.
UNASSISTED_MULTIPLIER == 112
ASSISTED_MULTIPLIER == 95

\* data/assisted_unassisted_stats.json: player_id -> percentages (0-100).
AssistedUnassistedData ==
    (2 :> [pct_assisted |-> 100, pct_unassisted |-> 0])
    @@ (12 :> [pct_assisted |-> 0, pct_unassisted |-> 100])
    @@ (3 :> [pct_assisted |-> 50, pct_unassisted |-> 50])

\* The multiplier in 1/10000 (percent times hundredths).
get_shot_mix_adjustment(player_id) ==
    IF player_id \notin DOMAIN AssistedUnassistedData THEN 100 * 100
    ELSE LET player == AssistedUnassistedData[player_id] IN
         player.pct_assisted * ASSISTED_MULTIPLIER
         + player.pct_unassisted * UNASSISTED_MULTIPLIER

\* League-average makes per 1000 by (area, shot type); the multiplier is the
\* entry over LEAGUE_AVG_3P.
LEAGUE_AVG_3P == 365
SHOT_TYPE_MULTIPLIERS ==
    [area \in {"corner", "above_break"} |->
        IF area = "corner"
        THEN [catch_shoot |-> 410, pullup |-> 370, stepback |-> 360,
              running |-> 340, fadeaway |-> 330, turnaround |-> 330]
        ELSE [catch_shoot |-> 380, pullup |-> 340, stepback |-> 330,
              running |-> 320, fadeaway |-> 310, turnaround |-> 310]]

\* The multiplier as the numerator over LEAGUE_AVG_3P; the default 1.0 is
\* LEAGUE_AVG_3P over itself.
get_shot_multiplier(area, shot_type) ==
    IF area \in DOMAIN SHOT_TYPE_MULTIPLIERS
       /\ shot_type \in DOMAIN SHOT_TYPE_MULTIPLIERS[area]
    THEN SHOT_TYPE_MULTIPLIERS[area][shot_type]
    ELSE LEAGUE_AVG_3P

\* scale = min(A_r / SCALE_ATTEMPTS, 1.0), in quarters (A_r in AttemptUnit).
PriorScale4(A_r) == Min((4 * (A_r * AttemptUnit)) \div SCALE_ATTEMPTS, 4)

\* <<mu, kappa>>: mu in 1/1000000 (hundredths times 1/10000), kappa plain.
get_player_prior(A_r, player_id) ==
    LET scale4 == PriorScale4(A_r)
        mu == MU_MIN + ((MU_MAX - MU_MIN) * scale4) \div 4
        kappa == KAPPA_MIN + ((KAPPA_MAX - KAPPA_MIN) * scale4) \div 4
    IN  << mu * get_shot_mix_adjustment(player_id), kappa >>

\* p_hat * multiplier returned as it is, without the clamp
NoClampProb(x) == x

\* max(0.15, min(0.55, x)), x in thousandths
ClampProb(x) == Max(150, Min(550, x))

\* p_hat = (M_r + kappa*mu) / (A_r + kappa), in 1/100000.  Numerator and
\* denominator are both taken over 25 (AttemptUnit and kappa are multiples of
\* 25), mu is in 1/1000000.
BayesEstimateOfMisses(A_r, M_r, mu_player, kappa_player) ==
    LET misses == IF A_r > M_r THEN A_r - M_r ELSE 0
        num25 == (misses * (AttemptUnit \div 25)) * 1000000
                 + (kappa_player \div 25) * mu_player
        den25 == (A_r * AttemptUnit + kappa_player) \div 25
    IN  num25 \div (10 * den25)
BayesEstimate(A_r, M_r, mu_player, kappa_player) ==
    LET num25 == (M_r * (AttemptUnit \div 25)) * 1000000
                 + (kappa_player \div 25) * mu_player
        den25 == (A_r * AttemptUnit + kappa_player) \div 25
    IN  num25 \div (10 * den25)

\* lines 185-188 of _expected_make_prob, on the looked-up (A_r, M_r):
\* the expected make probability in thousandths.
ExpectedFromState(A_r, M_r, player_id, area, shot_type) ==
    LET prior == get_player_prior(A_r, player_id)
        p_hat == BayesEstimate(A_r, M_r, prior[1], prior[2])
        multiplier == get_shot_multiplier(area, shot_type)
    IN  ClampProb((p_hat * multiplier) \div (LEAGUE_AVG_3P * 100))

_expected_make_prob(player_id, state, area, shot_type) ==
    LET A_r == IF player_id \in DOMAIN state THEN state[player_id].A_r ELSE 0
        M_r == IF player_id \in DOMAIN state THEN state[player_id].M_r ELSE 0
    IN  ExpectedFromState(A_r, M_r, player_id, area, shot_type)

(***************************************************************************)
(* Action records (the fields compute_adjusted_onoff_for_game reads)       *)
(***************************************************************************)
Act(type, team, pid, period, clock, sub, sh, sa, res, descr, x, y) ==
    [actionType |-> type, teamId |-> team, personId |-> pid,
     period |-> period, clock |-> clock, subType |-> sub,
     scoreHome |-> sh, scoreAway |-> sa, shotResult |-> res,
     descriptor |-> descr, description |-> <<>>,
     xLegacy |-> x, yLegacy |-> y,
     orderNumber |-> None, actionNumber |-> None]

\* the same action carrying the feed's orderNumber and actionNumber
Keyed(a, order, action) ==
    [a EXCEPT !.orderNumber = order, !.actionNumber = action]

\* lines 68-71: the sort key, 0 for a missing number
_key(a) == << IntOrZero(a.orderNumber), IntOrZero(a.actionNumber) >>

\* tuple comparison of two keys
KeyLess(k1, k2) == k1[1] < k2[1] \/ (k1[1] = k2[1] /\ k1[2] < k2[2])

\* sorted(actions, key=_key) with the ties in the opposite order
_sort_ties_reversed(feed) ==
    LET rank(k) == Cardinality({ j \in 1..Len(feed) :
                       \/ KeyLess(_key(feed[j]), _key(feed[k]))
                       \/ _key(feed[j]) = _key(feed[k]) /\ j >= k })
    IN  [r \in 1..Len(feed) |-> feed[CHOOSE k \in 1..Len(feed) : rank(k) = r]]

\* line 72: sorted(actions, key=_key); the sort is stable, so an action goes
\* after the actions of smaller key and the earlier actions of equal key
_sort_actions(feed) ==
    LET rank(k) == Cardinality({ j \in 1..Len(feed) :
                       \/ KeyLess(_key(feed[j]), _key(feed[k]))
                       \/ _key(feed[j]) = _key(feed[k]) /\ j <= k })
    IN  [r \in 1..Len(feed) |-> feed[CHOOSE k \in 1..Len(feed) : rank(k) = r]]

\* str(x or "").lower() on the strings of the feed
Lower(str) ==
    CASE str = "Made" -> "made"
      [] str = "Missed" -> "missed"
      [] str = "Substitution" -> "substitution"
      [] str = "3PT" -> "3pt"
      [] str = "IN" -> "in"
      [] str = "OUT" -> "out"
      [] OTHER -> str

T1 == Clock(11, 0)
T2 == Clock(10, 0)

Substitutions ==
    { Act("substitution", 1, 1, 1, T1, "out", None, None, "", <<>>, None, None),
      Act("substitution", 1, 6, 1, T1, "in", None, None, "", <<>>, None, None),
      Act("substitution", 1, 1, 1, T1, "in", None, None, "", <<>>, None, None),
      Act("substitution", 2, 11, 1, T1, "out", None, None, "", <<>>, None, None),
      Act("Substitution", 2, 16, 1, T1, "IN", None, None, "", <<>>, None, None),
      Act("substitution", 1, None, 1, T1, "in", None, None, "", <<>>, None, None),
      Act("substitution", None, 6, 1, T1, "in", None, None, "", <<>>, None, None),
      Act("substitution", 1, 2, 1, T2, "out", 2, 0, "", <<>>, None, None) }

Plays ==
    { Act("2pt", 1, 1, 1, T1, "", 2, 0, "Made", <<>>, None, None),
      Act("3pt", 1, 2, 1, T2, "", 5, 0, "Made", <<"pullup", "jump shot">>, 230, 40),
      Act("3pt", 2, 11, 1, T2, "", None, None, "Missed", <<>>, 0, 250),
      Act("3pt", 2, 12, 1, T1, "", 2, 3, "made", <<"step back">>, None, None),
      Act("timeout", None, None, 1, BadClock, "", None, None, "", <<>>, None, None) }

GameActions == Substitutions \cup Plays

ActionLists(alphabet) == UNION { [1..n -> alphabet] : n \in 0..MaxActions }

\* Actions with a missing identifier or a missing clock
EdgeActions ==
    { Act("3pt", 1, None, 1, T2, "", None, None, "Missed", <<>>, None, None),
      Act("3pt", None, 2, 1, T2, "", 3, 0, "Made", <<>>, None, None),
      Act("2pt", 2, 11, 1, NoClock, "", 0, 2, "Made", <<>>, None, None) }

\* lists of one or two actions, one of them an edge action
EdgeLists ==
    { << e >> : e \in EdgeActions }
    \cup { << e, g >> : e \in EdgeActions, g \in GameActions }
    \cup { << g, e >> : g \in GameActions, e \in EdgeActions }

\* The opening of a game: the first actions of each team inside the first
\* two minutes.
T0 == Clock(11, 30)
Touch(team, pid) ==
    Act("rebound", team, pid, 1, T0, "", None, None, "", <<>>, None, None)
SubAt0(team, pid, sub) ==
    Act("substitution", team, pid, 1, T0, sub, None, None, "", <<>>, None, None)

HomeOpenings ==
    { << Touch(1, 1), Touch(1, 2), Touch(1, 3), Touch(1, 4), Touch(1, 5) >>,
      << Touch(1, 5), Touch(1, 4), Touch(1, 3), Touch(1, 2), Touch(1, 1) >>,
      << Touch(1, 2), Touch(1, 3), Touch(1, 4), SubAt0(1, 1, "out"),
         SubAt0(1, 6, "in") >>,
      << Touch(1, 1), Touch(1, 2), Touch(1, 3), Touch(1, 4) >> }

AwayOpenings ==
    { << Touch(2, 11), Touch(2, 12), Touch(2, 13), Touch(2, 14), Touch(2, 15) >>,
      << Touch(2, 11), Touch(2, 12), Touch(2, 13), Touch(2, 14), Touch(2, 16) >>,
      << Touch(2, 11), Touch(2, 12), Touch(2, 13), Touch(2, 14) >> }

\* an opening of both teams followed by at most one more action
OpeningLists ==
    { h \o a \o t : h \in HomeOpenings, a \in AwayOpenings,
                    t \in { <<>> } \cup { << g >> : g \in GameActions } }

\* the action lists scanned
GameLists == ActionLists(GameActions) \cup EdgeLists \cup OpeningLists

\* Feeds as get_playbyplay_actions returns them, in any order, with the
\* orderNumber and actionNumber present or missing
KeyedActions ==
    { Keyed(a, order, action) :
        a \in { Act("substitution", 1, 1, 1, T1, "out", None, None, "", <<>>, None, None),
                Act("3pt", 1, 2, 1, T2, "", 3, 0, "Made", <<>>, None, None) },
        order \in {None, 1, 2}, action \in {None, 1} }

KeyedLists == UNION { [1..n -> KeyedActions] : n \in 0..MaxKeyed }

Feeds == GameLists \cup KeyedLists

\* the feeds of the games whose segmentation is computed twice
RerunFeeds ==
    UNION { [1..n -> GameActions] : n \in 0..MaxKeyed } \cup EdgeLists
        \cup OpeningLists \cup KeyedLists

\* get_game_home_away_team_ids and get_starters_by_team: the boxscore
BoxscoreHomeAway == << 1, 2 >>
BoxscoreStarters == (1 :> << 1, 2, 3, 4, 5 >>) @@ (2 :> << 11, 12, 13, 14, 15 >>)

\* player_state tables (A_r, M_r in AttemptUnit attempts)
PlayerStates ==
    { (2 :> [A_r |-> 4, M_r |-> 2]) @@ (12 :> [A_r |-> 1, M_r |-> 0]) }

\* (orb_rate, ppp) of config.yaml, in hundredths
Configs == { << 25, 110 >> }

(***************************************************************************)
(* Pre-scan set-up of compute_adjusted_onoff_for_game                      *)
(***************************************************************************)
SeqToSet(seq) == { seq[k] : k \in 1..Len(seq) }

\* votes: [order |-> teams in insertion order, count |-> team -> votes]
AddVote(votes, team_id) ==
    IF team_id \in DOMAIN votes.count
    THEN [votes EXCEPT !.count[team_id] = @ + 1]
    ELSE [order |-> Append(votes.order, team_id),
          count |-> votes.count @@ (team_id :> 1)]

\* max(votes, key=votes.get): the first key, in insertion order, of most votes
MaxVotes(votes) ==
    LET best == CHOOSE k \in 1..Len(votes.order) :
                    /\ \A m \in 1..Len(votes.order) :
                          votes.count[votes.order[m]] <= votes.count[votes.order[k]]
                    /\ \A m \in 1..(k - 1) :
                          votes.count[votes.order[m]] < votes.count[votes.order[k]]
    IN  votes.order[best]

NoVotes == [order |-> <<>>, count |-> [t \in {} |-> 0]]

\* The loop of _infer_home_away_from_actions from the k-th action on;
\* acc = [home_votes, away_votes, prev_home, prev_away] (prev None at first).
RECURSIVE InferHomeAwayLoop(_, _, _)
InferHomeAwayLoop(acts, k, acc) ==
    IF k > Len(acts) THEN acc
    ELSE LET a == acts[k]
             team_id == IntOrZero(a.teamId)
             score_home == IntOrZero(a.scoreHome)
             score_away == IntOrZero(a.scoreAway)
         IN  IF team_id <= 0 THEN InferHomeAwayLoop(acts, k + 1, acc)
             ELSE LET voted ==
                        IF acc.prev_home # None /\ acc.prev_away # None
                        THEN IF score_home > acc.prev_home /\ score_away = acc.prev_away
                             THEN [acc EXCEPT !.home_votes = AddVote(@, team_id)]
                             ELSE IF score_away > acc.prev_away /\ score_home = acc.prev_home
                                  THEN [acc EXCEPT !.away_votes = AddVote(@, team_id)]
                                  ELSE acc
                        ELSE acc
                  IN  InferHomeAwayLoop(acts, k + 1,
                          [voted EXCEPT !.prev_home = score_home,
                                        !.prev_away = score_away])

_infer_home_away_from_actions(acts) ==
    LET acc == InferHomeAwayLoop(acts, 1,
                   [home_votes |-> NoVotes, away_votes |-> NoVotes,
                    prev_home |-> None, prev_away |-> None])
    IN  IF acc.home_votes.order # <<>> /\ acc.away_votes.order # <<>>
           /\ MaxVotes(acc.home_votes) # MaxVotes(acc.away_votes)
        THEN << MaxVotes(acc.home_votes), MaxVotes(acc.away_votes) >>
        ELSE << 0, 0 >>

\* One pass of _infer_starters_from_actions for a cutoff: team -> list of the
\* distinct players seen up to `limit` elapsed seconds, in order of appearance.
RECURSIVE StartersWithin(_, _, _, _)
StartersWithin(acts, k, limit, starters) ==
    IF k > Len(acts) THEN starters
    ELSE LET a == acts[k]
             e == _elapsed_game_seconds(a.period, a.clock)
             team_id == IntOrZero(a.teamId)
             pid == IntOrZero(a.personId)
         IN  IF e = None \/ e > limit \/ team_id <= 0 \/ pid <= 0
             THEN StartersWithin(acts, k + 1, limit, starters)
             ELSE LET lst == IF team_id \in DOMAIN starters
                             THEN starters[team_id] ELSE <<>>
                      new == IF pid \in SeqToSet(lst) THEN lst ELSE Append(lst, pid)
                  IN  StartersWithin(acts, k + 1, limit,
                          [t \in DOMAIN starters \cup {team_id} |->
                              IF t = team_id THEN new ELSE starters[t]])

FirstFive(lst) == SubSeq(lst, 1, Min(5, Len(lst)))

cutoff_seconds == << 120, 300, 600 >>

_infer_starters_from_actions(acts) ==
    LET pass(c) == StartersWithin(acts, 1, cutoff_seconds[c], [t \in {} |-> <<>>])
        complete(st) == DOMAIN st # {} /\ \A t \in DOMAIN st : Len(st[t]) >= 5
        chosen == IF complete(pass(1)) THEN pass(1)
                  ELSE IF complete(pass(2)) THEN pass(2)
                  ELSE pass(3)
    IN  [t \in DOMAIN chosen |-> FirstFive(chosen[t])]

\* lines 209-211: the inferred starters, or the boxscore's
StartersFor(acts, home, away) ==
    LET starters == _infer_starters_from_actions(acts) IN
    IF home \notin DOMAIN starters \/ away \notin DOMAIN starters
       \/ Len(starters[home]) < 5 \/ Len(starters[away]) < 5
    THEN BoxscoreStarters
    ELSE starters

\* lines 213-216: starters.get(team, []) as a set
InitialLineup(starters, team) ==
    IF team \in DOMAIN starters THEN SeqToSet(starters[team]) ELSE {}

\* lines 219-231: player id -> team id of the first action naming both
RECURSIVE PlayerInfo(_, _, _)
PlayerInfo(acts, k, info) ==
    IF k > Len(acts) THEN info
    ELSE LET pid == IntOrZero(acts[k].personId)
             team_id == IntOrZero(acts[k].teamId)
         IN  IF pid <= 0 \/ team_id <= 0 \/ pid \in DOMAIN info
             THEN PlayerInfo(acts, k + 1, info)
             ELSE PlayerInfo(acts, k + 1, info @@ (pid :> team_id))

\* PlayerOnOff(player_id, player_name, team_id)
PlayerOnOff(team_id) ==
    [team_id |-> team_id, on_pts_for |-> 0, on_pts_against |-> 0,
     on_pts_for_adj |-> 0, on_pts_against_adj |-> 0, seconds_on |-> 0]

(***************************************************************************)
(* Helpers of the scan                                                     *)
(***************************************************************************)
\* _ensure_player for every member of `members`
EnsurePlayers(st, members, team_id) ==
    [p \in DOMAIN st \cup members |->
        IF p \in DOMAIN st THEN st[p] ELSE PlayerOnOff(team_id)]

\* the opponent of a team (lines 254 and 450)
OppAlwaysAway(team_id, home, away) == away
OppId(team_id, home, away) == IF team_id = home THEN away ELSE home

\* the points credited to the scoring side only
_apply_points_own_side(st, lu, home, away, team_id, points, adjusted) ==
    IF points = 0 THEN st
    ELSE IF team_id \notin DOMAIN lu THEN st
    ELSE LET st1 == EnsurePlayers(st, lu[team_id], team_id)
         IN  [p \in DOMAIN st1 |->
                IF p \in lu[team_id]
                THEN IF adjusted
                     THEN [st1[p] EXCEPT !.on_pts_for_adj = @ + points]
                     ELSE [st1[p] EXCEPT !.on_pts_for = @ + points]
                ELSE st1[p]]

\* _apply_points(team_id, points, adjusted) on ledger `st` with lineups `lu`;
\* `points` is in the units of the ledger it goes to.
_apply_points(st, lu, home, away, team_id, points, adjusted) ==
    IF points = 0 THEN st
    ELSE IF team_id \notin DOMAIN lu THEN st
    ELSE LET opp_id == OppId(team_id, home, away)
             st1 == EnsurePlayers(st, lu[team_id], team_id)
             st2 == [p \in DOMAIN st1 |->
                       IF p \in lu[team_id]
                       THEN IF adjusted
                            THEN [st1[p] EXCEPT !.on_pts_for_adj = @ + points]
                            ELSE [st1[p] EXCEPT !.on_pts_for = @ + points]
                       ELSE st1[p]]
             st3 == EnsurePlayers(st2, lu[opp_id], opp_id)
         IN  [p \in DOMAIN st3 |->
                IF p \in lu[opp_id]
                THEN IF adjusted
                     THEN [st3[p] EXCEPT !.on_pts_against_adj = @ + points]
                     ELSE [st3[p] EXCEPT !.on_pts_against = @ + points]
                ELSE st3[p]]

\* lines 344-347: delta_t seconds for every member of every lineup
AccrueSeconds(st, lu, home, away, delta_t) ==
    LET st1 == EnsurePlayers(st, lu[home], home)
        st2 == [p \in DOMAIN st1 |->
                  IF p \in lu[home]
                  THEN [st1[p] EXCEPT !.seconds_on = @ + delta_t] ELSE st1[p]]
        st3 == EnsurePlayers(st2, lu[away], away)
    IN  IF home = away THEN st2
        ELSE [p \in DOMAIN st3 |->
                IF p \in lu[away]
                THEN [st3[p] EXCEPT !.seconds_on = @ + delta_t] ELSE st3[p]]

\* tuple(sorted(set))
RECURSIVE SortedTuple(_)
SortedTuple(set) ==
    IF set = {} THEN <<>>
    ELSE LET least == CHOOSE x \in set : \A y \in set : x <= y
         IN  << least >> \o SortedTuple(set \ {least})

\* The clock step of one loop iteration (lines 331-348) for action a:
\* what it leaves in prev_elapsed, last_period, last_clock and stats.
ClockStepAnyOrder(a) ==
    LET elapsed == _elapsed_game_seconds(a.period, a.clock)
        advances == elapsed # None
        delta_t == IF advances THEN elapsed - prev_elapsed ELSE 0
    IN  [prev_elapsed |-> IF advances THEN elapsed ELSE prev_elapsed,
         last_period |-> IF advances /\ a.period # None THEN a.period
                         ELSE last_period,
         last_clock |-> IF advances /\ a.clock.kind # "none" THEN a.clock
                        ELSE last_clock,
         stats |-> IF delta_t > 0
                   THEN AccrueSeconds(stats, lineups, home_id, away_id, delta_t)
                   ELSE stats]
ClockStep(a) ==
    LET elapsed == _elapsed_game_seconds(a.period, a.clock)
        advances == elapsed # None /\ elapsed >= prev_elapsed
        delta_t == IF advances THEN elapsed - prev_elapsed ELSE 0
    IN  [prev_elapsed |-> IF advances THEN elapsed ELSE prev_elapsed,
         last_period |-> IF advances /\ a.period # None THEN a.period
                         ELSE last_period,
         last_clock |-> IF advances /\ a.clock.kind # "none" THEN a.clock
                        ELSE last_clock,
         stats |-> IF delta_t > 0
                   THEN AccrueSeconds(stats, lineups, home_id, away_id, delta_t)
                   ELSE stats]

\* The condition under which _close_stint appends a stint (line 296)
EmitsAnyDuration(duration, lu, home, away) ==
    Cardinality(lu[home]) = 5 /\ Cardinality(lu[away]) = 5
EmitsAnySize(duration, lu, home, away) == duration > 0
EmitsStint(duration, lu, home, away) ==
    duration > 0 /\ Cardinality(lu[home]) = 5 /\ Cardinality(lu[away]) = 5

\* The stint record of _close_stint (lines 297-319); `now` holds the running
\* values prev_elapsed, prev_home, prev_away, adj_home, adj_away, last_period,
\* last_clock at the call.
StintRecord(lu, home, away, now) ==
    [home_lineup |-> SortedTuple(lu[home]),
     away_lineup |-> SortedTuple(lu[away]),
     seconds |-> now.prev_elapsed - stint_start.elapsed,
     home_pts |-> now.prev_home - stint_start.home,
     away_pts |-> now.prev_away - stint_start.away,
     home_pts_adj |-> now.adj_home - stint_start.home_adj,
     away_pts_adj |-> now.adj_away - stint_start.away_adj,
     start_elapsed |-> stint_start.elapsed,
     end_elapsed |-> now.prev_elapsed,
     start_period |-> stint_start.period,
     start_clock |-> stint_start.clock,
     end_period |-> now.last_period,
     end_clock |-> now.last_clock,
     start_home_score |-> stint_start.home,
     start_away_score |-> stint_start.away,
     end_home_score |-> now.prev_home,
     end_away_score |-> now.prev_away,
     start_home_score_adj |-> stint_start.home_adj,
     start_away_score_adj |-> stint_start.away_adj,
     end_home_score_adj |-> now.adj_home,
     end_away_score_adj |-> now.adj_away]

\* the stint_start_* values _close_stint leaves (lines 320-326)
KeepStintStart(now) == stint_start
StintStartAt(now) ==
    [elapsed |-> now.prev_elapsed, home |-> now.prev_home,
     away |-> now.prev_away, home_adj |-> now.adj_home,
     away_adj |-> now.adj_away, period |-> now.last_period,
     clock |-> now.last_clock]

\* _close_stint(): the stints list and the stint_start_* it leaves
_skip_close_stint(lu, home, away, now) ==
    [stints |-> stints, stint_start |-> stint_start]
_close_stint(lu, home, away, now) ==
    [stints |-> IF EmitsStint(now.prev_elapsed - stint_start.elapsed, lu, home, away)
                THEN Append(stints, StintRecord(lu, home, away, now))
                ELSE stints,
     stint_start |-> StintStartAt(now)]

\* history: the running values and the ledger at a _close_stint call
BoundaryAt(now) ==
    [elapsed |-> now.prev_elapsed, home |-> now.prev_home, away |-> now.prev_away,
     adj_home |-> now.adj_home, adj_away |-> now.adj_away, stats |-> now.stats]

(***************************************************************************)
(* The scan loop (lines 328-438), one action of the model per iteration    *)
(***************************************************************************)
IsSubstitution(a) == Lower(a.actionType) = "substitution"

\* the running values handed to _close_stint after the clock step cs
RunningAt(cs) ==
    [prev_elapsed |-> cs.prev_elapsed, prev_home |-> prev_home,
     prev_away |-> prev_away, adj_home |-> adj_home, adj_away |-> adj_away,
     last_period |-> cs.last_period, last_clock |-> cs.last_clock,
     stats |-> cs.stats]

\* The inner while loop (lines 363-371): the index j at which it stops.
BatchOfOne(j, team_id, period, clock) == j + 1
RECURSIVE BatchEnd(_, _, _, _)
BatchEnd(j, team_id, period, clock) ==
    IF j < Len(actions)
       /\ Lower(actions[j + 1].actionType) = "substitution"
       /\ actions[j + 1].teamId = team_id
       /\ actions[j + 1].period = period
       /\ actions[j + 1].clock = clock
    THEN BatchEnd(j + 1, team_id, period, clock)
    ELSE j

\* lines 377-378 with the personId checks of lines 381-383 and 387-389
BatchPids(batch, sub_type) ==
    { batch[k].personId :
        k \in { n \in 1..Len(batch) :
                  Lower(batch[n].subType) = sub_type /\ batch[n].personId # None } }

\* lines 380-390: every out discarded, then every in added
OutsKept(lineup, batch) == lineup \cup BatchPids(batch, "in")
ApplyBatch(lineup, batch) ==
    (lineup \ BatchPids(batch, "out")) \cup BatchPids(batch, "in")

\* history: the seconds of the interval ending at a _close_stint call, when a
\* lineup does not have five members there
DroppedBy(lu, home, away, now) ==
    IF Cardinality(lu[home]) = 5 /\ Cardinality(lu[away]) = 5 THEN 0
    ELSE now.prev_elapsed - boundary.elapsed

\* A substitution whose teamId is None (lines 353-358): the stint is closed
\* and the action skipped.
ScanSubstitutionNoTeam ==
    /\ pc = "scan"
    /\ i < Len(actions)
    /\ IsSubstitution(actions[i + 1])
    /\ actions[i + 1].teamId = None
    /\ LET cs == ClockStep(actions[i + 1])
           now == RunningAt(cs)
           closed == _close_stint(lineups, home_id, away_id, now)
       IN  /\ prev_elapsed' = cs.prev_elapsed
           /\ last_period' = cs.last_period
           /\ last_clock' = cs.last_clock
           /\ stats' = cs.stats
           /\ stints' = closed.stints
           /\ stint_start' = closed.stint_start
           /\ boundary' = BoundaryAt(now)
           /\ dropped_seconds' = dropped_seconds + DroppedBy(lineups, home_id, away_id, now)
    /\ on_court' = {}
    /\ i' = i + 1
    /\ UNCHANGED << actions, player_state, orb_rate, ppp, pc, home_id, away_id,
                    lineups, prev_home, prev_away, adj_home, adj_away, rows,
                    q_in, q_out, first_run, driver_vars >>

\* A substitution batch (lines 353-393).  lineups[team_id] raises KeyError
\* when the team has no lineup and the batch names a player.
ScanSubstitution ==
    /\ pc = "scan"
    /\ i < Len(actions)
    /\ IsSubstitution(actions[i + 1])
    /\ actions[i + 1].teamId # None
    /\ LET a == actions[i + 1]
           cs == ClockStep(a)
           now == RunningAt(cs)
           closed == _close_stint(lineups, home_id, away_id, now)
           team_id == PyInt(a.teamId)
           j == BatchEnd(i, team_id, a.period, a.clock)
           batch == SubSeq(actions, i + 1, j)
           raises == team_id \notin DOMAIN lineups
                     /\ BatchPids(batch, "out") \cup BatchPids(batch, "in") # {}
       IN  /\ prev_elapsed' = cs.prev_elapsed
           /\ last_period' = cs.last_period
           /\ last_clock' = cs.last_clock
           /\ stats' = cs.stats
           /\ stints' = closed.stints
           /\ stint_start' = closed.stint_start
           /\ boundary' = BoundaryAt(now)
           /\ dropped_seconds' = dropped_seconds + DroppedBy(lineups, home_id, away_id, now)
           /\ IF raises
              THEN pc' = "raised" /\ UNCHANGED << lineups, i >>
              ELSE /\ pc' = pc
                   /\ i' = j
                   /\ lineups' =
                        IF team_id \in DOMAIN lineups
                        THEN [lineups EXCEPT ![team_id] = ApplyBatch(@, batch)]
                        ELSE lineups
    /\ on_court' = {}
    /\ UNCHANGED << actions, player_state, orb_rate, ppp, home_id, away_id,
                    prev_home, prev_away, adj_home, adj_away, rows, q_in, q_out, first_run, driver_vars >>

\* adj_factor = 3.0 - orb_rate * ppp, in 1/10000
AdjFactor(orb, p) == 3 * 10000 - orb * p

\* actual_make (line 430)
ActualMake(a) == IF Lower(a.shotResult) = "made" THEN 1 ELSE 0

\* adj_delta of a 3PT action (lines 427-431), in 1/PointScale points
AdjDeltaNoHaircut(a, state, orb, p) ==
    (_expected_make_prob(a.personId, state, _classify_area(a), _classify_shot_type(a))
       - 1000 * ActualMake(a)) * (3 * 10000)
AdjDelta(a, state, orb, p) ==
    LET shot_type == _classify_shot_type(a)
        area == _classify_area(a)
        exp_prob == _expected_make_prob(a.personId, state, area, shot_type)
    IN  (exp_prob - 1000 * ActualMake(a)) * AdjFactor(orb, p)

\* whether the 3PT adjustment applies to the action (lines 421-424)
AdjustsAnyId(a) == Lower(a.actionType) = "3pt"
Adjusts(a) ==
    Lower(a.actionType) = "3pt" /\ a.teamId # None /\ a.personId # None

\* The score step of a non-substitution action (lines 395-418): the ledger
\* and the running tallies after it, from the ledger st of the clock step.
ScoreStep(a, st) ==
    LET new_home == IF a.scoreHome # None THEN a.scoreHome ELSE prev_home
        new_away == IF a.scoreAway # None THEN a.scoreAway ELSE prev_away
        delta_home == new_home - prev_home
        delta_away == new_away - prev_away
        st1 == _apply_points(st, lineups, home_id, away_id, home_id, delta_home, FALSE)
        st2 == _apply_points(st1, lineups, home_id, away_id, home_id,
                             delta_home * PointScale, TRUE)
        st3 == _apply_points(st2, lineups, home_id, away_id, away_id, delta_away, FALSE)
        st4 == _apply_points(st3, lineups, home_id, away_id, away_id,
                             delta_away * PointScale, TRUE)
    IN  [stats |-> st4, prev_home |-> new_home, prev_away |-> new_away,
         adj_home |-> adj_home + delta_home * PointScale,
         adj_away |-> adj_away + delta_away * PointScale]

\* Any other action (lines 395-438)
ScanPlay ==
    /\ pc = "scan"
    /\ i < Len(actions)
    /\ ~IsSubstitution(actions[i + 1])
    /\ LET a == actions[i + 1]
           cs == ClockStep(a)
           sc == ScoreStep(a, cs.stats)
           adj_delta == IF Adjusts(a) THEN AdjDelta(a, player_state, orb_rate, ppp)
                        ELSE 0
       IN  /\ prev_elapsed' = cs.prev_elapsed
           /\ last_period' = cs.last_period
           /\ last_clock' = cs.last_clock
           /\ prev_home' = sc.prev_home
           /\ prev_away' = sc.prev_away
           /\ stats' = IF Adjusts(a)
                       THEN _apply_points(sc.stats, lineups, home_id, away_id,
                                          a.teamId, adj_delta, TRUE)
                       ELSE sc.stats
           /\ adj_home' = IF Adjusts(a) /\ a.teamId = home_id
                          THEN sc.adj_home + adj_delta ELSE sc.adj_home
           /\ adj_away' = IF Adjusts(a) /\ a.teamId # home_id /\ a.teamId = away_id
                          THEN sc.adj_away + adj_delta ELSE sc.adj_away
    /\ on_court' = on_court \cup {lineups}
    /\ i' = i + 1
    /\ UNCHANGED << actions, player_state, orb_rate, ppp, pc, home_id, away_id,
                    lineups, stint_start, stints, rows, boundary,
                    dropped_seconds, q_in, q_out, first_run, driver_vars >>

(***************************************************************************)
(* After the loop (lines 440-540)                                          *)
(***************************************************************************)
\* dict.get(key, 0.0)
GetOrZero(f, key) == IF key \in DOMAIN f THEN f[key] ELSE 0

\* round(x, 3) of an adjusted amount (1/PointScale points): to 1/1000 point
Round3(x) == ((x + 5000) \div 10000) * 10000

\* round(seconds_on / 60.0, 2), in hundredths of a minute
MinutesOn(seconds_on) == (seconds_on * 100 + 30) \div 60

\* official boxscore plus-minus by player: never filled (line 220)
official_plus_minus == [p \in {} |-> 0]

\* One output row (lines 448-494) for ledger entry p_stats
PlayerRow(pid, p_stats, home, away, fin_home, fin_away, fin_adj_home, fin_adj_away) ==
    LET team_id == p_stats.team_id
        opp_id == OppId(team_id, home, away)
        team_totals_actual == (away :> fin_away) @@ (home :> fin_home)
        team_totals_adj == (away :> fin_adj_away) @@ (home :> fin_adj_home)
        team_actual == GetOrZero(team_totals_actual, team_id)
        opp_actual == GetOrZero(team_totals_actual, opp_id)
        team_adj == GetOrZero(team_totals_adj, team_id)
        opp_adj == GetOrZero(team_totals_adj, opp_id)
        off_for == team_actual - p_stats.on_pts_for
        off_against == opp_actual - p_stats.on_pts_against
        off_for_adj == team_adj - p_stats.on_pts_for_adj
        off_against_adj == opp_adj - p_stats.on_pts_against_adj
        on_diff_reconstructed == p_stats.on_pts_for - p_stats.on_pts_against
        off_diff_reconstructed == off_for - off_against
        on_diff_adj == p_stats.on_pts_for_adj - p_stats.on_pts_against_adj
        off_diff_adj == off_for_adj - off_against_adj
        team_margin_actual == team_actual - opp_actual
        on_diff_official == IF pid \in DOMAIN official_plus_minus
                            THEN official_plus_minus[pid]
                            ELSE on_diff_reconstructed
        off_diff_official == team_margin_actual - on_diff_official
    IN  [team_id |-> team_id,
         player_id |-> pid,
         on_pts_for |-> p_stats.on_pts_for,
         on_pts_against |-> p_stats.on_pts_against,
         on_diff |-> on_diff_official,
         off_pts_for |-> off_for,
         off_pts_against |-> off_against,
         off_diff |-> off_diff_official,
         on_pts_for_adj |-> Round3(p_stats.on_pts_for_adj),
         on_pts_against_adj |-> Round3(p_stats.on_pts_against_adj),
         on_diff_adj |-> Round3(on_diff_adj),
         off_pts_for_adj |-> Round3(off_for_adj),
         off_pts_against_adj |-> Round3(off_against_adj),
         off_diff_adj |-> Round3(off_diff_adj),
         on_off_diff |-> on_diff_official - off_diff_official,
         on_off_diff_adj |-> Round3(on_diff_adj - off_diff_adj),
         on_diff_reconstructed |-> on_diff_reconstructed,
         off_diff_reconstructed |-> off_diff_reconstructed,
         on_off_diff_reconstructed |-> on_diff_reconstructed - off_diff_reconstructed,
         minutes_on |-> MinutesOn(p_stats.seconds_on)]

NoRows == [p \in {} |-> 0]

\* End of the action list: the final _close_stint and the output rows.
Finish ==
    /\ pc = "scan"
    /\ actions # <<>>
    /\ i >= Len(actions)
    /\ LET now == [prev_elapsed |-> prev_elapsed, prev_home |-> prev_home,
                   prev_away |-> prev_away, adj_home |-> adj_home,
                   adj_away |-> adj_away, last_period |-> last_period,
                   last_clock |-> last_clock, stats |-> stats]
           closed == _close_stint(lineups, home_id, away_id, now)
       IN  /\ stints' = closed.stints
           /\ stint_start' = closed.stint_start
           /\ boundary' = BoundaryAt(now)
           /\ dropped_seconds' = dropped_seconds + DroppedBy(lineups, home_id, away_id, now)
    /\ rows' = [p \in DOMAIN stats |->
                   PlayerRow(p, stats[p], home_id, away_id, prev_home, prev_away,
                             adj_home, adj_away)]
    /\ pc' = "done"
    /\ UNCHANGED << actions, player_state, orb_rate, ppp, i, home_id, away_id,
                    lineups, stats, prev_elapsed, prev_home, prev_away,
                    adj_home, adj_away, last_period, last_clock, on_court,
                    q_in, q_out, first_run, driver_vars >>

\* An empty action list returns two empty frames (lines 202-203).
ReturnEmpty ==
    /\ pc = "scan"
    /\ actions = <<>>
    /\ pc' = "done"
    /\ UNCHANGED << actions, player_state, orb_rate, ppp, i, home_id, away_id,
                    lineups, stats, prev_elapsed, prev_home, prev_away,
                    adj_home, adj_away, stint_start, last_period, last_clock,
                    stints, rows, boundary, on_court, dropped_seconds,
                    q_in, q_out, first_run, driver_vars >>

(***************************************************************************)
(* The game scan as a specification                                        *)
(***************************************************************************)
NoQuery == [player_id |-> 0, seen |-> FALSE, A_r |-> 0, M_r |-> 0,
            area |-> "", shot_type |-> ""]

\* The locals as lines 201-289 leave them, for the action list acts.
StartLocals(acts) ==
    LET inferred == _infer_home_away_from_actions(acts)
        ids == IF inferred[1] = 0 \/ inferred[2] = 0 THEN BoxscoreHomeAway
               ELSE inferred
        starters == StartersFor(acts, ids[1], ids[2])
        player_info == PlayerInfo(acts, 1, [p \in {} |-> 0])
    IN  [home_id |-> ids[1], away_id |-> ids[2],
         lineups |-> [t \in {ids[1], ids[2]} |-> InitialLineup(starters, t)],
         stats |-> [p \in DOMAIN player_info |-> PlayerOnOff(player_info[p])],
         stint_start |-> [elapsed |-> 0, home |-> 0, away |-> 0, home_adj |-> 0,
                          away_adj |-> 0, period |-> 1, clock |-> TipOffClock],
         boundary |-> [elapsed |-> 0, home |-> 0, away |-> 0, adj_home |-> 0,
                       adj_away |-> 0,
                       stats |-> [p \in DOMAIN player_info |->
                                    PlayerOnOff(player_info[p])]]]

ScanStart(acts) ==
    /\ actions = acts
    /\ pc = "scan"
    /\ i = 0
    /\ \E start \in {StartLocals(acts)} :
           /\ home_id = start.home_id
           /\ away_id = start.away_id
           /\ lineups = start.lineups
           /\ stats = start.stats
           /\ stint_start = start.stint_start
           /\ boundary = start.boundary
    /\ prev_elapsed = 0
    /\ prev_home = 0
    /\ prev_away = 0
    /\ adj_home = 0
    /\ adj_away = 0
    /\ last_period = 1
    /\ last_clock = TipOffClock
    /\ stints = <<>>
    /\ rows = NoRows
    /\ on_court = {}
    /\ dropped_seconds = 0

Init ==
    /\ \E feed \in Feeds : ScanStart(_sort_actions(feed))
    /\ player_state \in PlayerStates
    /\ \E cfg \in Configs : orb_rate = cfg[1] /\ ppp = cfg[2]
    /\ q_in = NoQuery
    /\ q_out = None
    /\ first_run = <<>>
    /\ DriverIdle

Next ==
    \/ ScanSubstitutionNoTeam
    \/ ScanSubstitution
    \/ ScanPlay
    \/ Finish
    \/ ReturnEmpty

Spec == Init /\ [][Next]_vars

(***************************************************************************)
(* The scan of feeds whose teamId is a number or a string of digits        *)
(***************************************************************************)
StringIdActions ==
    { Act("substitution", Str(1), 1, 1, T1, "out", None, None, "", <<>>, None, None),
      Act("substitution", Str(2), 16, 1, T2, "in", None, None, "", <<>>, None, None) }

\* short feeds of the usual actions, alone or followed by a substitution
\* whose teamId is a string and by one more action
StringIdFeeds ==
    LET short == UNION { [1..n -> GameActions] : n \in 0..MaxKeyed }
    IN  short \cup { l \o << a >> : l \in short, a \in StringIdActions }
              \cup { << a, g >> : a \in StringIdActions, g \in GameActions }

InitStringId ==
    /\ \E feed \in StringIdFeeds : ScanStart(_sort_actions(feed))
    /\ player_state \in PlayerStates
    /\ \E cfg \in Configs : orb_rate = cfg[1] /\ ppp = cfg[2]
    /\ q_in = NoQuery
    /\ q_out = None
    /\ first_run = <<>>
    /\ DriverIdle

SpecStringId == InitStringId /\ [][Next]_vars

(***************************************************************************)
(* The scan of feeds expanded from the local play-by-play files            *)
(***************************************************************************)
\* ingest.py lines 252-269: the `in` row of an expanded substitution carries
\* personId int(in_pid or 0), which is 0 when the name after "SUB:" is not
\* found among the team's players and the row had no personId of its own.
ZeroIdActions ==
    { Act("substitution", 1, 0, 1, T1, "in", None, None, "", <<>>, None, None),
      Act("substitution", 1, 1, 1, T1, "out", None, None, "", <<>>, None, None) }

ZeroIdFeeds ==
    LET short == UNION { [1..n -> GameActions] : n \in 0..MaxKeyed }
    IN  short \cup { l \o << a >> : l \in short, a \in ZeroIdActions }
              \cup { << a, g >> : a \in ZeroIdActions, g \in GameActions }
              \cup { << a, b >> : a \in ZeroIdActions, b \in ZeroIdActions }

InitZeroId ==
    /\ \E feed \in ZeroIdFeeds : ScanStart(_sort_actions(feed))
    /\ player_state \in PlayerStates
    /\ \E cfg \in Configs : orb_rate = cfg[1] /\ ppp = cfg[2]
    /\ q_in = NoQuery
    /\ q_out = None
    /\ first_run = <<>>
    /\ DriverIdle

SpecZeroId == InitZeroId /\ [][Next]_vars

(***************************************************************************)
(* compute_adjusted_onoff_for_game called a second time on the same game   *)
(***************************************************************************)
InitRerun ==
    /\ \E feed \in RerunFeeds : ScanStart(_sort_actions(feed))
    /\ player_state \in PlayerStates
    /\ \E cfg \in Configs : orb_rate = cfg[1] /\ ppp = cfg[2]
    /\ q_in = NoQuery
    /\ q_out = None
    /\ first_run = <<>>
    /\ DriverIdle

\* The second call: line 201 sorts the list the first call scanned, and the
\* locals start over; the output of the first call is kept for comparison.
Rerun ==
    /\ pc = "done"
    /\ first_run = <<>>
    /\ first_run' = << [stints |-> stints, rows |-> rows] >>
    /\ \E acts \in {_sort_actions(actions)} :
         /\ actions' = acts
         /\ \E start \in {StartLocals(acts)} :
              /\ home_id' = start.home_id
              /\ away_id' = start.away_id
              /\ lineups' = start.lineups
              /\ stats' = start.stats
              /\ stint_start' = start.stint_start
              /\ boundary' = start.boundary
    /\ pc' = "scan"
    /\ i' = 0
    /\ prev_elapsed' = 0
    /\ prev_home' = 0
    /\ prev_away' = 0
    /\ adj_home' = 0
    /\ adj_away' = 0
    /\ last_period' = 1
    /\ last_clock' = TipOffClock
    /\ stints' = <<>>
    /\ rows' = NoRows
    /\ on_court' = {}
    /\ dropped_seconds' = 0
    /\ UNCHANGED << player_state, orb_rate, ppp, q_in, q_out, driver_vars >>

NextRerun ==
    \/ ScanSubstitutionNoTeam
    \/ ScanSubstitution
    \/ ScanPlay
    \/ Finish
    \/ ReturnEmpty
    \/ Rerun

SpecRerun == InitRerun /\ [][NextRerun]_vars

(***************************************************************************)
(* The shot expectation model applied to one query                         *)
(***************************************************************************)
QueryPlayers == {2, 3, 7, 12}
QueryAreas == {"corner", "above_break", "mid_range"}
QueryShotTypes == {"catch_shoot", "pullup", "stepback", "running", "fadeaway",
                   "turnaround", "hook"}

Queries ==
    [player_id : QueryPlayers, seen : BOOLEAN, A_r : 0..MaxUnits,
     M_r : 0..MaxUnits, area : QueryAreas, shot_type : QueryShotTypes]

\* the player_state table of a query: one row, or none for an unseen player
QueryState(q) ==
    IF q.seen THEN (q.player_id :> [A_r |-> q.A_r, M_r |-> q.M_r])
    ELSE [p \in {} |-> 0]

InitProb ==
    /\ ScanStart(<<>>)
    /\ player_state \in PlayerStates
    /\ orb_rate = 0
    /\ ppp = 0
    /\ q_in \in Queries
    /\ q_out = None
    /\ first_run = <<>>
    /\ DriverIdle

ApplyExpected ==
    /\ q_out = None
    /\ q_out' = _expected_make_prob(q_in.player_id, QueryState(q_in),
                                    q_in.area, q_in.shot_type)
    /\ UNCHANGED << actions, player_state, orb_rate, ppp, pc, i, home_id,
                    away_id, lineups, stats, prev_elapsed, prev_home, prev_away,
                    adj_home, adj_away, stint_start, last_period, last_clock,
                    stints, rows, boundary, on_court, dropped_seconds, q_in, first_run, driver_vars >>

NextProb == ApplyExpected

SpecProb == InitProb /\ [][NextProb]_vars

(***************************************************************************)
(* The batch driver: run_onoff.py main, run by backfill_multiseason.py      *)
(***************************************************************************)
\* Dates are day numbers; a month of the calendar has MonthLen days.
month_end(d) == ((d - 1) \div MonthLen + 1) * MonthLen


\* backfill_multiseason.py lines 17-25: the (chunk_start, chunk_end) pairs
RECURSIVE daterange_months(_, _)
daterange_months(cur, end) ==
    IF cur > end THEN << >>
    ELSE LET chunk_end == Min(month_end(cur), end)
         IN  << [start |-> cur, end |-> chunk_end, recompute_existing |-> FALSE] >>
                 \o daterange_months(chunk_end + 1, end)

\* backfill_multiseason.py lines 45-73: one run per monthly chunk, then one over the whole window;
\* --recompute-existing is never passed
BackfillRuns ==
    daterange_months(FirstDay, LastDay)
        \o << [start |-> FirstDay, end |-> LastDay, recompute_existing |-> FALSE] >>

\* run_onoff_daily.py lines 35-49 called twice for the first day, the second
\* time with --recompute-existing
DailyRuns ==
    << [start |-> FirstDay, end |-> FirstDay, recompute_existing |-> FALSE],
       [start |-> FirstDay, end |-> FirstDay, recompute_existing |-> TRUE] >>

Plans == { BackfillRuns, DailyRuns }

\* get_game_ids_for_date: the schedule of the window
GameIdsOn(d) == IF d = FirstDay THEN << 10 * d + 1, 10 * d + 2 >> ELSE << 10 * d + 1 >>

AllGames == UNION { SeqToSet(GameIdsOn(d)) : d \in FirstDay..LastDay }

\* run_onoff.py lines 92-98: the visits of the two nested loops, in order
RECURSIVE Visits(_, _)
Visits(d, end) ==
    IF d > end THEN << >>
    ELSE [k \in 1..Len(GameIdsOn(d)) |-> [date |-> d, game_id |-> GameIdsOn(d)[k]]]
             \o Visits(d + 1, end)

\* What a game's feed holds: "threes" has 3PT attempts of identified players,
\* "plain" has none (its player_df is empty).
FeedKinds == {"plain", "threes"}

InitBatch ==
    /\ ScanStart(<<>>)
    /\ player_state \in PlayerStates
    /\ orb_rate = 0
    /\ ppp = 0
    /\ q_in = NoQuery
    /\ q_out = None
    /\ first_run = <<>>
    /\ feed_kind \in [AllGames -> FeedKinds]
    /\ half_life_3pa \in {0, 30}
    /\ plan \in Plans
    /\ run = 1
    /\ dpc = "load"
    /\ todo = << >>
    /\ processed_games = {}
    /\ run_rows = << >>
    /\ stint_rows = << >>
    /\ out_file = {}
    /\ stint_file = {}
    /\ applied = << >>
    /\ raised = {}

\* lines 81-90: a run starts from the files the earlier runs left
StartRun ==
    /\ dpc = "load"
    /\ processed_games' = out_file
    /\ run_rows' = << >>
    /\ stint_rows' = << >>
    /\ raised' = {}
    /\ todo' = Visits(plan[run].start, plan[run].end)
    /\ dpc' = "loop"
    /\ UNCHANGED << feed_kind, half_life_3pa, plan, run, out_file, stint_file, applied >>
    /\ UNCHANGED scan_vars

\* line 100: the game is skipped without a step
IsProcessed(visit) ==
    (~plan[run].recompute_existing) /\ visit.game_id \in processed_games

\* lines 100-102
SkipProcessed ==
    /\ dpc = "loop"
    /\ todo # << >>
    /\ IsProcessed(Head(todo))
    /\ todo' = Tail(todo)
    /\ UNCHANGED << feed_kind, half_life_3pa, plan, run, dpc, processed_games, run_rows,
                    stint_rows, out_file, stint_file, applied, raised >>
    /\ UNCHANGED scan_vars

\* adjust.py line 382: gamma = 0.5 ** (1.0 / half_life_3pa) divides by zero
DecayRaises == half_life_3pa = 0

\* the loops stopped by a game that raised
VisitsAfterAbort(visits, failed) == IF failed THEN << >> ELSE Tail(visits)

\* lines 131-133: `continue` after a game that raised, as after any game
VisitsAfter(visits, failed) == Tail(visits)

\* lines 103-133, one game.  got_feed: get_playbyplay_actions returned the
\* feed to get_player_3pt_df_from_pbp (it returns [] when its fetches fail).
\* scan: compute_adjusted_onoff_for_game returned rows, returned empty
\* frames (its own fetch gave []), or raised.
GameStep ==
    /\ dpc = "loop"
    /\ todo # << >>
    /\ ~IsProcessed(Head(todo))
    /\ \E got_feed \in BOOLEAN, scan \in {"rows", "empty", "raise"} :
         LET visit == Head(todo)
             game_id == visit.game_id
             player_df_empty == ~got_feed \/ feed_kind[game_id] # "threes"
             appended == scan = "rows"
             updating == scan # "raise" /\ ~player_df_empty
         IN  /\ run_rows' = IF appended THEN Append(run_rows, game_id) ELSE run_rows
             /\ stint_rows' = IF appended THEN Append(stint_rows, game_id)
                              ELSE stint_rows
             /\ applied' = IF updating /\ ~DecayRaises THEN Append(applied, visit)
                           ELSE applied
             /\ raised' = IF scan = "raise" \/ (updating /\ DecayRaises)
                          THEN raised \cup {game_id} ELSE raised
             /\ todo' = VisitsAfter(todo, scan = "raise" \/ (updating /\ DecayRaises))
    /\ UNCHANGED << feed_kind, half_life_3pa, plan, run, dpc, processed_games, out_file,
                    stint_file >>
    /\ UNCHANGED scan_vars

\* lines 135-169: the files are written, and the next run of the plan starts
SaveRun ==
    /\ dpc = "loop"
    /\ todo = << >>
    /\ out_file' = out_file \cup SeqToSet(run_rows)
    /\ stint_file' = stint_file \cup SeqToSet(stint_rows)
    /\ IF run < Len(plan)
       THEN run' = run + 1 /\ dpc' = "load"
       ELSE run' = run /\ dpc' = "exit"
    /\ UNCHANGED << feed_kind, half_life_3pa, plan, todo, processed_games, run_rows,
                    stint_rows, applied, raised >>
    /\ UNCHANGED scan_vars

NextBatch ==
    \/ StartRun
    \/ SkipProcessed
    \/ GameStep
    \/ SaveRun

SpecBatch == InitBatch /\ [][NextBatch]_vars

(***************************************************************************)
(* Properties of the scan                                                  *)
(***************************************************************************)
NextAction == actions[i + 1]

\* the ledger entry of a player, all zero before _ensure_player creates it
Ledger(st, p) == IF p \in DOMAIN st THEN st[p] ELSE PlayerOnOff(0)

\* two substitution records of the same team at the same period and clock
SameBatchKey(a, b) ==
    /\ IsSubstitution(a) /\ IsSubstitution(b)
    /\ a.teamId = b.teamId /\ a.period = b.period /\ a.clock = b.clock

\* the last position of the maximal run of such records from position k + 1
RunEnd(k) ==
    CHOOSE n \in (k + 1)..Len(actions) :
        /\ \A m \in (k + 1)..n : SameBatchKey(actions[k + 1], actions[m])
        /\ n = Len(actions) \/ ~SameBatchKey(actions[k + 1], actions[n + 1])

\* the players the run names with the given subType
RunPids(k, sub_type) ==
    { actions[m].personId :
        m \in { n \in (k + 1)..RunEnd(k) :
                  Lower(actions[n].subType) = sub_type /\ actions[n].personId # None } }

\* a step of the scan over a substitution batch of a team that has a lineup
BatchStep ==
    /\ pc = "scan" /\ i < Len(actions) /\ pc' = "scan"
    /\ IsSubstitution(NextAction)
    /\ NextAction.teamId \in DOMAIN lineups

\* a step that calls _close_stint: a substitution action or the end of the scan
TakesBoundary ==
    /\ pc = "scan"
    /\ \/ i < Len(actions) /\ IsSubstitution(NextAction)
       \/ i >= Len(actions) /\ actions # <<>>

C1_StartersFive ==
    (pc = "scan" /\ i = 0) => \A t \in DOMAIN lineups : Cardinality(lineups[t]) = 5

C1_BatchSize ==
    BatchStep =>
        LET t == NextAction.teamId
            stay == lineups[t] \ RunPids(i, "out")
            new == RunPids(i, "in") \ stay
            gone == lineups[t] \cap RunPids(i, "out")
        IN  /\ Cardinality(lineups'[t]) = Cardinality(stay) + Cardinality(new)
            /\ (Cardinality(lineups[t]) <= 5 /\ Cardinality(new) <= Cardinality(gone))
                  => Cardinality(lineups'[t]) <= 5

C2_BatchIsAtomic ==
    BatchStep =>
        LET t == NextAction.teamId
            before == lineups[home_id] \cup lineups[away_id]
        IN  /\ i' = RunEnd(i)
            /\ DOMAIN lineups' = DOMAIN lineups
            /\ lineups'[t] = (lineups[t] \ RunPids(i, "out")) \cup RunPids(i, "in")
            /\ \A u \in DOMAIN lineups \ {t} : lineups'[u] = lineups[u]
            /\ \A p \in DOMAIN stats' :
                 /\ Ledger(stats', p).seconds_on - Ledger(stats, p).seconds_on
                      = IF p \in before THEN prev_elapsed' - prev_elapsed ELSE 0
                 /\ Ledger(stats', p).on_pts_for = Ledger(stats, p).on_pts_for
                 /\ Ledger(stats', p).on_pts_against = Ledger(stats, p).on_pts_against
                 /\ Ledger(stats', p).on_pts_for_adj = Ledger(stats, p).on_pts_for_adj
                 /\ Ledger(stats', p).on_pts_against_adj
                      = Ledger(stats, p).on_pts_against_adj
            /\ Len(stints') \in {Len(stints), Len(stints) + 1}
            /\ Len(stints') = Len(stints) + 1 =>
                 /\ stints'[Len(stints')].home_lineup = SortedTuple(lineups[home_id])
                 /\ stints'[Len(stints')].away_lineup = SortedTuple(lineups[away_id])

C2_AtomicBatches == [][C2_BatchIsAtomic]_vars

\* a batch of three records, an in listed before the out of the same player,
\* has been consumed in one step
C2_ThreeRecordBatchApplied ==
    /\ pc = "scan" /\ i = 3 /\ on_court = {} /\ Len(stints) = 1
    /\ SameBatchKey(actions[1], actions[2]) /\ SameBatchKey(actions[1], actions[3])
    /\ actions[1].personId = 1 /\ Lower(actions[1].subType) = "in"
    /\ actions[2].personId = 1 /\ Lower(actions[2].subType) = "out"
    /\ actions[3].personId = 6
    /\ lineups[home_id] = {1, 2, 3, 4, 5, 6}

Ascending(t) == \A k \in 1..(Len(t) - 1) : t[k] < t[k + 1]

C3_WellFormed ==
    \A k \in 1..Len(stints) :
        /\ stints[k].seconds > 0
        /\ Len(stints[k].home_lineup) = 5 /\ Ascending(stints[k].home_lineup)
        /\ Len(stints[k].away_lineup) = 5 /\ Ascending(stints[k].away_lineup)

C3_DegenerateDropped ==
    (/\ TakesBoundary
     /\ \/ prev_elapsed' - boundary.elapsed <= 0
        \/ Cardinality(lineups[home_id]) # 5
        \/ Cardinality(lineups[away_id]) # 5)
    => stints' = stints

\* C3: every emitted stint has seconds > 0 and, on each side, 5 distinct
\* players stored as an ascending 5-tuple; closing an interval of non-positive
\* duration, or with a lineup that does not have 5 members, emits no stint.
C3_Stints == []C3_WellFormed /\ [][C3_DegenerateDropped]_vars

\* one interval has been emitted as a stint and a later one of positive
\* duration, closed with four players on a side, has not
C3_EmittedAndDropped ==
    pc = "done" /\ Len(stints) = 1 /\ dropped_seconds > 0

C4_StintPoints ==
    Len(stints') = Len(stints) + 1 =>
        LET s == stints'[Len(stints')]
        IN  /\ SubSeq(stints', 1, Len(stints)) = stints
            /\ s.start_elapsed = boundary.elapsed
            /\ s.end_elapsed = prev_elapsed'
            /\ s.home_pts = prev_home' - boundary.home
            /\ s.away_pts = prev_away' - boundary.away
            /\ s.home_pts - s.away_pts
                 = (prev_home' - prev_away') - (boundary.home - boundary.away)
            /\ s.home_pts_adj = adj_home' - boundary.adj_home
            /\ s.away_pts_adj = adj_away' - boundary.adj_away

\* C4: a stint, once emitted, is never changed, and its home_pts, away_pts,
\* home_pts_adj and away_pts_adj are the changes of the running score and of
\* the running adjusted tallies between the boundary that started its interval
\* and the boundary that ends it; home_pts - away_pts is the net score change
\* over the interval.
C4_StintsConserveScore == [][C4_StintPoints]_vars

\* a stint that starts from a score other than 0-0, over which the home team
\* scored, raw and adjusted points differing
C4_SecondStintScored ==
    \E k \in 1..Len(stints) :
        /\ stints[k].start_home_score # 0
        /\ stints[k].home_pts # 0
        /\ stints[k].home_pts_adj # stints[k].home_pts * PointScale

RECURSIVE SumSeconds(_)
SumSeconds(s) == IF s = <<>> THEN 0 ELSE s[1].seconds + SumSeconds(Tail(s))

C6_Step ==
    /\ lineups' # lineups =>
         pc = "scan" /\ i < Len(actions) /\ IsSubstitution(NextAction)
    /\ TakesBoundary =>
         /\ stint_start'.elapsed = prev_elapsed'
         /\ stint_start'.home = prev_home' /\ stint_start'.away = prev_away'
         /\ stint_start'.home_adj = adj_home'
         /\ stint_start'.away_adj = adj_away'
         /\ (/\ prev_elapsed' > boundary.elapsed
             /\ Cardinality(lineups[home_id]) = 5
             /\ Cardinality(lineups[away_id]) = 5) => Len(stints') = Len(stints) + 1
    /\ Len(stints') # Len(stints) => TakesBoundary
    /\ Len(stints') = Len(stints) + 1 =>
         \A lu \in on_court \cup {lineups} :
             /\ stints'[Len(stints')].home_lineup = SortedTuple(lu[home_id])
             /\ stints'[Len(stints')].away_lineup = SortedTuple(lu[away_id])

\* C6: lineups change only in the step of a substitution batch; that step and
\* the end of the action list each take a stint boundary, the batch's before
\* the lineup is mutated; stints are emitted at no other step; and the lineup
\* pair an emitted stint records is the pair on court at every action
\* processed since the previous boundary and at the boundary that ends it.
C6_LineupHomogeneous == [][C6_Step]_vars

\* two stints with different home lineups, the second covering a play
C6_TwoLineupsTwoStints ==
    /\ pc = "done" /\ Len(stints) = 2 /\ on_court # {}
    /\ stints[1].home_lineup # stints[2].home_lineup
    /\ stints[2].home_lineup = SortedTuple(lineups[home_id])

\* the score deltas an action carries against the previous snapshot
ScoreDeltaHome(a) == IF a.scoreHome # None THEN a.scoreHome - prev_home ELSE 0
ScoreDeltaAway(a) == IF a.scoreAway # None THEN a.scoreAway - prev_away ELSE 0

\* points for and against player p when the home team gains dh and the away
\* team da with the lineups lu on court
PointsFor(p, lu, dh, da) ==
    (IF p \in lu[home_id] THEN dh ELSE 0) + (IF p \in lu[away_id] THEN da ELSE 0)
PointsAgainst(p, lu, dh, da) ==
    (IF p \in lu[home_id] THEN da ELSE 0) + (IF p \in lu[away_id] THEN dh ELSE 0)

\* (expectedProb - actualMake) * (3 - orb_rate * ppp) of a 3PT action
ShotAdjDelta(a) ==
    (_expected_make_prob(a.personId, player_state, _classify_area(a),
                         _classify_shot_type(a))
       - (IF Lower(a.shotResult) = "made" THEN 1000 ELSE 0))
    * (30000 - orb_rate * ppp)

\* a 3PT action naming its team and its shooter
IsTeamThree(a, t) ==
    Lower(a.actionType) = "3pt" /\ a.teamId = t /\ a.personId # None

\* the adjustment a step over action a adds for team t
ThreeFor(a, t) == IF IsTeamThree(a, t) THEN ShotAdjDelta(a) ELSE 0

C7_Attributed ==
    (pc = "scan" /\ i < Len(actions) /\ pc' = "scan") =>
        LET a == NextAction
            dh == ScoreDeltaHome(a)
            da == ScoreDeltaAway(a)
        IN  (dh # 0 \/ da # 0) =>
              \A p \in DOMAIN stats' \cup lineups[home_id] \cup lineups[away_id] :
                /\ p \in DOMAIN stats' \/ PointsFor(p, lineups, dh, da) = 0
                /\ Ledger(stats', p).on_pts_for - Ledger(stats, p).on_pts_for
                     = PointsFor(p, lineups, dh, da)
                /\ Ledger(stats', p).on_pts_against - Ledger(stats, p).on_pts_against
                     = PointsAgainst(p, lineups, dh, da)
                /\ Ledger(stats', p).on_pts_for_adj - Ledger(stats, p).on_pts_for_adj
                     = PointsFor(p, lineups, dh * PointScale + ThreeFor(a, home_id),
                                 da * PointScale + ThreeFor(a, away_id))
                /\ Ledger(stats', p).on_pts_against_adj
                     - Ledger(stats, p).on_pts_against_adj
                     = PointsAgainst(p, lineups, dh * PointScale + ThreeFor(a, home_id),
                                     da * PointScale + ThreeFor(a, away_id))

\* C7 as stated: whenever an action's scoreHome/scoreAway differs from the
\* previous score snapshot, each non-zero team delta is added to on_pts_for,
\* raw and adjusted, of every player of that team's lineup at that action and
\* to on_pts_against of every player of the opposing lineup at that action,
\* and the ledgers of the players off the court are unchanged.
C7_EveryScoreChangeAttributed == [][C7_Attributed]_vars

RECURSIVE TeamAdjSum(_, _)
TeamAdjSum(t, n) ==
    IF n = 0 THEN 0 ELSE TeamAdjSum(t, n - 1) + ThreeFor(actions[n], t)

C8_Tally ==
    (pc \in {"scan", "done"}) =>
        /\ adj_home - PointScale * prev_home = TeamAdjSum(home_id, i)
        /\ adj_away - PointScale * prev_away = TeamAdjSum(away_id, i)

C8_Ledger ==
    (/\ pc = "scan" /\ i < Len(actions)
     /\ \E t \in {home_id, away_id} : IsTeamThree(NextAction, t)) =>
        LET a == NextAction
            dh == ScoreDeltaHome(a)
            da == ScoreDeltaAway(a)
            adj_h == ThreeFor(a, home_id)
            adj_a == ThreeFor(a, away_id)
        IN  /\ prev_home' = prev_home + dh /\ prev_away' = prev_away + da
            /\ adj_home' = adj_home + dh * PointScale + adj_h
            /\ adj_away' = adj_away + da * PointScale + adj_a
            /\ \A p \in DOMAIN stats' :
                 /\ Ledger(stats', p).on_pts_for - Ledger(stats, p).on_pts_for
                      = PointsFor(p, lineups, dh, da)
                 /\ Ledger(stats', p).on_pts_against - Ledger(stats, p).on_pts_against
                      = PointsAgainst(p, lineups, dh, da)
                 /\ Ledger(stats', p).on_pts_for_adj - Ledger(stats, p).on_pts_for_adj
                      = PointsFor(p, lineups, dh * PointScale, da * PointScale)
                        + PointsFor(p, lineups, adj_h, adj_a)
                 /\ Ledger(stats', p).on_pts_against_adj
                      - Ledger(stats, p).on_pts_against_adj
                      = PointsAgainst(p, lineups, dh * PointScale, da * PointScale)
                        + PointsAgainst(p, lineups, adj_h, adj_a)

\* C8: on a 3PT action naming its team and its shooter, adjDelta =
\* (expectedProb - actualMake) * (3 - orb_rate * ppp) is added to on_pts_for_adj
\* of every player of the shooting team's lineup, to on_pts_against_adj of every
\* player of the opposing lineup and to the shooting team's adjusted tally; the
\* raw ledgers and the raw score move by the score delta alone; and in every
\* state a team's adjusted tally minus its raw score is the sum of the
\* adjDeltas of the team's 3PT shots scanned so far.
C8_ThreePointAdjustment == []C8_Tally /\ [][C8_Ledger]_vars

\* both teams have taken a 3PT shot and both adjusted tallies have left the
\* raw score
C8_BothTeamsAdjusted ==
    /\ pc = "scan" /\ i = 2
    /\ adj_home # PointScale * prev_home
    /\ adj_away # PointScale * prev_away

C10_ExpectedProbInRange ==
    q_out # None => 150 <= q_out /\ q_out <= 550

\* a seen player with attempts and no makes, shooting a step-back: the product
\* is below 0.15 and the result is the lower bound
C10_ClampedFromBelow ==
    /\ q_out = 150 /\ q_in.seen /\ q_in.A_r > 0 /\ q_in.M_r = 0
    /\ q_in.shot_type = "stepback"

(***************************************************************************)
(* Properties of the start of the scan and of the stint list               *)
(***************************************************************************)
\* C11 as stated: at the start of a game's scan each team's lineup is the set
\* of starters that the pre-game starters input gives for the team.
C11_LineupsAreStartersInput ==
    (pc = "scan" /\ i = 0 /\ actions # <<>>) =>
        \A t \in {home_id, away_id} : lineups[t] = SeqToSet(BoxscoreStarters[t])

\* the lineup pair a stint records
StintPair(s) == << s.home_lineup, s.away_lineup >>

\* C12 as stated: whenever two consecutively emitted stints abut in time
\* (end_elapsed of the first is start_elapsed of the second), their lineup
\* pairs differ.
C12_AbuttingStintsDiffer ==
    \A k \in 1..(Len(stints) - 1) :
        stints[k].end_elapsed = stints[k + 1].start_elapsed
            => StintPair(stints[k]) # StintPair(stints[k + 1])

\* C13: the emitted stints, in order, do not overlap in game time: each has
\* start_elapsed < end_elapsed and ends no later than the next one starts,
\* whatever the order of the clocks of the actions and whether they parse.
C13_StintsDisjoint ==
    \A k \in 1..Len(stints) :
        /\ stints[k].start_elapsed < stints[k].end_elapsed
        /\ k < Len(stints) => stints[k].end_elapsed <= stints[k + 1].start_elapsed

\* two stints have been emitted, the second closed by an action whose clock
\* is earlier than the elapsed time already reached
C13_TwoStintsOutOfOrderClock ==
    /\ pc = "scan" /\ i = 3 /\ Len(stints) = 2
    /\ _elapsed_game_seconds(actions[3].period, actions[3].clock) # None
    /\ _elapsed_game_seconds(actions[3].period, actions[3].clock) < prev_elapsed

\* a batch of exactly one out record and one in record
PairBatch ==
    /\ BatchStep
    /\ RunEnd(i) = i + 2
    /\ { Lower(actions[i + 1].subType), Lower(actions[i + 2].subType) } = {"in", "out"}

C14_PairNetChange ==
    PairBatch =>
        LET t == NextAction.teamId
            out == IF Lower(actions[i + 1].subType) = "out"
                   THEN actions[i + 1].personId ELSE actions[i + 2].personId
            in == IF Lower(actions[i + 1].subType) = "in"
                  THEN actions[i + 1].personId ELSE actions[i + 2].personId
            removed == IF out # None /\ out \in lineups[t] THEN 1 ELSE 0
            added == IF in # None /\ in \notin (lineups[t] \ {out}) THEN 1 ELSE 0
        IN  /\ Cardinality(lineups'[t]) = Cardinality(lineups[t]) - removed + added
            /\ (out # None /\ out \in lineups[t] /\ in # None
                /\ (in \notin lineups[t] \/ in = out))
                  => Cardinality(lineups'[t]) = Cardinality(lineups[t])

NoAdjustment ==
    /\ adj_home' - adj_home = PointScale * (prev_home' - prev_home)
    /\ adj_away' - adj_away = PointScale * (prev_away' - prev_away)
    /\ \A p \in DOMAIN stats' :
         /\ Ledger(stats', p).on_pts_for_adj - Ledger(stats, p).on_pts_for_adj
              = PointScale * (Ledger(stats', p).on_pts_for - Ledger(stats, p).on_pts_for)
         /\ Ledger(stats', p).on_pts_against_adj - Ledger(stats, p).on_pts_against_adj
              = PointScale * (Ledger(stats', p).on_pts_against
                                - Ledger(stats, p).on_pts_against)

C17_Step ==
    (pc = "scan" /\ i < Len(actions)) =>
        LET a == NextAction IN
        /\ (IsSubstitution(a) /\ a.teamId = None) =>
              lineups' = lineups /\ pc' = "scan" /\ i' = i + 1
        /\ (/\ IsSubstitution(a) /\ a.teamId # None
            /\ \A m \in (i + 1)..RunEnd(i) : actions[m].personId = None) =>
              lineups' = lineups /\ pc' = "scan" /\ i' = RunEnd(i)
        /\ (IsSubstitution(a) /\ a.teamId \in DOMAIN lineups) =>
              /\ pc' = "scan"
              /\ lineups'[a.teamId] \subseteq
                   lineups[a.teamId]
                   \cup ({ actions[m].personId : m \in (i + 1)..RunEnd(i) } \ {None})
        /\ (Lower(a.actionType) = "3pt" /\ (a.teamId = None \/ a.personId = None)) =>
              pc' = "scan" /\ i' = i + 1 /\ lineups' = lineups /\ NoAdjustment

\* C17: a substitution without teamId, or whose records have no personId,
\* changes no lineup; a 3PT action without teamId or without personId adds no
\* adjustment to any ledger or tally (the score change it carries is still
\* attributed); and in each case the scan goes on to the following action.
C17_MissingIdsSkipped == [][C17_Step]_vars

\* a made 3PT without teamId has been scanned: the score moved to 3-0 and the
\* adjusted tally with it, without adjustment
C17_ThreeWithoutTeamScanned ==
    /\ pc = "scan" /\ i >= 1
    /\ Lower(actions[i].actionType) = "3pt" /\ actions[i].teamId = None
    /\ prev_home = 3 /\ adj_home = 3 * PointScale

C18_Step ==
    (pc = "scan" /\ i < Len(actions) /\ NextAction.clock.kind \in {"none", "bad"}) =>
        /\ pc' = "scan" /\ i' > i
        /\ prev_elapsed' = prev_elapsed
        /\ last_clock' = last_clock
        /\ \A p \in DOMAIN stats' :
             Ledger(stats', p).seconds_on = Ledger(stats, p).seconds_on

\* C18: scanning an action whose clock is missing or does not parse raises no
\* error, adds no seconds to any player's seconds_on and leaves the running
\* elapsed clock unchanged.
C18_UnknownClockIsNoOp == [][C18_Step]_vars

\* a scoring action without clock has been scanned after 60 elapsed seconds:
\* the score moved, the elapsed clock did not
C18_ClocklessScoreScanned ==
    /\ pc = "scan" /\ i = 2 /\ actions[2].clock.kind = "none"
    /\ prev_elapsed = 60 /\ prev_away = 2

\* the expected make probability of a query with M_r replaced by m
ExpectedWithMakes(q, m) ==
    _expected_make_prob(q.player_id, QueryState([q EXCEPT !.M_r = m]),
                        q.area, q.shot_type)

\* C20: for every player, area and shot type, a larger M_r with the same A_r
\* never gives a smaller expected make probability.
C20_MonotoneInMakes ==
    q_out # None =>
        \A m \in q_in.M_r..MaxUnits, n \in q_in.M_r..MaxUnits :
            m <= n => /\ q_out <= ExpectedWithMakes(q_in, m)
                      /\ ExpectedWithMakes(q_in, m) <= ExpectedWithMakes(q_in, n)

\* a seen player whose expected make probability is strictly larger than with
\* one unit of makes less
C20_MoreMakesHigherProb ==
    /\ q_out # None /\ q_in.seen /\ q_in.M_r > 0
    /\ q_out > ExpectedWithMakes(q_in, q_in.M_r - 1)


\* the list is in non-decreasing order of the sort key
IsSortedByKey(acts) ==
    \A k \in 1..(Len(acts) - 1) : ~KeyLess(_key(acts[k + 1]), _key(acts[k]))

C15_RaisedGameLeavesNoRows ==
    \A g \in raised :
        /\ g \notin SeqToSet(run_rows) /\ g \notin SeqToSet(stint_rows)
        /\ g \in out_file => g \in processed_games
        /\ g \in stint_file => g \in processed_games

\* C16 as stated: the decay updates are applied in non-decreasing date
\* order, within a run and across the runs of the backfill.
C16_UpdatesInDateOrder ==
    \A j \in 1..Len(applied) : \A k \in j..Len(applied) :
        applied[j].date <= applied[k].date

(***************************************************************************)
(* _elapsed_game_seconds applied to one period and clock                   *)
(***************************************************************************)
\* the clock strings drawn: minutes and seconds, seconds only, missing, bad
ElapsedClocks ==
    { Clock(mm, ss) : mm \in 0..12, ss \in {0, 1, 30, 59} }
        \cup { ClockS(ss) : ss \in {0, 30, 59} } \cup { NoClock, BadClock }

\* 0 <= remaining <= period length, or a clock without a value
ClockOfPeriod(period, clock) ==
    \/ _parse_clock_seconds(clock) = None
    \/ _parse_clock_seconds(clock) <= _period_length_seconds(period)

ElapsedQueries ==
    { q \in [period : 1..MaxPeriod, clock : ElapsedClocks] :
        ClockOfPeriod(q.period, q.clock) }

\* everything but the result of the function stays as it is
OnlyResult ==
    UNCHANGED << actions, player_state, orb_rate, ppp, pc, i, home_id,
                 away_id, lineups, stats, prev_elapsed, prev_home, prev_away,
                 adj_home, adj_away, stint_start, last_period, last_clock,
                 stints, rows, boundary, on_court, dropped_seconds, q_in,
                 first_run, driver_vars >>

\* the state around a function applied on its own: no game, no batch run
NoGame ==
    /\ ScanStart(<<>>)
    /\ player_state = [p \in {} |-> 0]
    /\ orb_rate = 0
    /\ ppp = 0
    /\ first_run = <<>>
    /\ DriverIdle

InitElapsed ==
    /\ NoGame
    /\ q_in \in ElapsedQueries
    /\ q_out = << >>

ApplyElapsed ==
    /\ q_out = << >>
    /\ q_out' = << _elapsed_game_seconds(q_in.period, q_in.clock) >>
    /\ OnlyResult

NextElapsed == ApplyElapsed

SpecElapsed == InitElapsed /\ [][NextElapsed]_vars

\* the clock string of a period's first instant
StartClock(period) == IF period <= 4 THEN Clock(12, 0) ELSE Clock(5, 0)

\* C21: periods 1..4 last 720 seconds and later periods 300; the elapsed
\* seconds never decrease when the period increases or, within a period,
\* when the remaining time decreases; the end of a period is the start of
\* the next one.
C21_ElapsedMonotone ==
    (q_out # << >> /\ q_out[1] # None) =>
        LET p == q_in.period
            rem == _parse_clock_seconds(q_in.clock)
        IN  /\ _elapsed_game_seconds(p, Clock(0, 0))
                   - _elapsed_game_seconds(p, StartClock(p))
                 = (IF p <= 4 THEN 720 ELSE 300)
            /\ q_out[1] = _elapsed_game_seconds(p, StartClock(p))
                              + (IF p <= 4 THEN 720 ELSE 300) - rem
            /\ \A r \in ElapsedQueries :
                 LET rem2 == _parse_clock_seconds(r.clock)
                 IN  (rem2 # None /\ (r.period > p \/ (r.period = p /\ rem2 <= rem)))
                         => _elapsed_game_seconds(r.period, r.clock) >= q_out[1]
            /\ rem = 0 =>
                 q_out[1] = _elapsed_game_seconds(p + 1, StartClock(p + 1))
            /\ p = 1 => _elapsed_game_seconds(p, StartClock(p)) = 0

\* the end of the second overtime has been converted
C21_EndOfSecondOvertime ==
    /\ q_out = << 3480 >>
    /\ q_in.period = 6
    /\ q_in.clock = Clock(0, 0)

(***************************************************************************)
(* _classify_shot_type applied to one 3PT action                           *)
(***************************************************************************)
Phrases ==
    {"step back", "stepback", "pullup", "pull-up", "pull up", "running",
     "driving", "fadeaway", "fade away", "turnaround", "turn around",
     "jump shot"}

Descriptors == UNION { [1..n -> Phrases] : n \in 0..MaxPhrases }

Descriptions == { << >>, << "jump shot" >>, << "turn around", "driving" >> }

ShotActions ==
    { [Act("3pt", 1, 2, 1, T2, "", 3, 0, "Made", descr, None, None)
          EXCEPT !.description = desc] :
        descr \in Descriptors, desc \in Descriptions }

InitShotType ==
    /\ NoGame
    /\ q_in \in ShotActions
    /\ q_out = << >>

ApplyShotType ==
    /\ q_out = << >>
    /\ q_out' = << _classify_shot_type(q_in) >>
    /\ OnlyResult

NextShotType == ApplyShotType

SpecShotType == InitShotType /\ [][NextShotType]_vars

\* the categories in their order of priority, with their keywords
ShotCategories ==
    << [name |-> "stepback", keywords |-> {"step back", "stepback"}],
       [name |-> "pullup", keywords |-> {"pullup", "pull-up", "pull up"}],
       [name |-> "running", keywords |-> {"running", "driving"}],
       [name |-> "fadeaway", keywords |-> {"fadeaway", "fade away"}],
       [name |-> "turnaround", keywords |-> {"turnaround", "turn around"}] >>

\* the text of an action: its descriptor, or its description when it has no
\* descriptor
ShotText(action) ==
    IF action.descriptor # << >> THEN action.descriptor ELSE action.description

\* the categories with a keyword in the text
Matching(text) ==
    { c \in 1..Len(ShotCategories) : SeqToSet(text) \cap ShotCategories[c].keywords # {} }

\* C23: the shot type is the first category in the order stepback, pullup,
\* running, fadeaway, turnaround with a keyword in the action's text, and
\* catch_shoot when the text has no keyword.
C23_FirstCategoryInOrder ==
    q_out # << >> =>
        LET hits == Matching(ShotText(q_in))
        IN  IF hits = {} THEN q_out[1] = "catch_shoot"
            ELSE q_out[1] = ShotCategories[CHOOSE c \in hits : \A o \in hits : c <= o].name

\* a text naming a later category before an earlier one has been classified
C23_TurnaroundThenStepback ==
    /\ q_out = << "stepback" >>
    /\ q_in.descriptor = << "turnaround", "step back" >>

(***************************************************************************)
(* run_rapm.py: the design matrices built from the rows of stints.csv      *)
(***************************************************************************)
\* Lineups of two clubs; a club is the home side in some stints and the
\* away side in others.
ClubA == { << 1, 2, 3, 4, 5 >>, << 2, 3, 4, 5, 6 >> }
ClubB == { << 11, 12, 13, 14, 15 >>, << 12, 13, 14, 15, 16 >> }

\* a stint row: the columns home_p1..home_p5 and away_p1..away_p5
StintRows ==
    { [home |-> a, away |-> b] : a \in ClubA, b \in ClubB }
        \cup { [home |-> b, away |-> a] : a \in ClubA, b \in ClubB }

StintFrames == UNION { [1..n -> StintRows] : n \in 0..MaxStints }

\* lines 39-48: the sorted list of the players of all the columns
get_player_list(frame) ==
    SortedTuple(UNION { SeqToSet(frame[k].home) \cup SeqToSet(frame[k].away) :
                          k \in 1..Len(frame) })

\* the number of columns of a side that hold the player
Slots(side, pid) == Cardinality({ k \in 1..Len(side) : side[k] = pid })

\* the offensive matrix with the away rows built like the home rows
build_orapm_unflipped(frame) ==
    LET player_list == get_player_list(frame)
    IN  [r \in 0..(2 * Len(frame) - 1) |->
           [c \in 0..(Len(player_list) - 1) |->
              Slots(frame[r \div 2 + 1].home, player_list[c + 1])
                - Slots(frame[r \div 2 + 1].away, player_list[c + 1])]]

\* lines 51-78: csr_matrix adds up the entries appended for a (row, column)
build_design_matrix(frame) ==
    LET player_list == get_player_list(frame)
    IN  [r \in 0..(Len(frame) - 1) |->
           [c \in 0..(Len(player_list) - 1) |->
              Slots(frame[r + 1].home, player_list[c + 1])
                - Slots(frame[r + 1].away, player_list[c + 1])]]

\* lines 116-164: rows 2i and 2i+1 of stint i
build_design_matrix_orapm(frame) ==
    LET player_list == get_player_list(frame)
    IN  [r \in 0..(2 * Len(frame) - 1) |->
           [c \in 0..(Len(player_list) - 1) |->
              LET row == frame[r \div 2 + 1]
                  pid == player_list[c + 1]
              IN  IF r % 2 = 0 THEN Slots(row.home, pid) - Slots(row.away, pid)
                  ELSE Slots(row.away, pid) - Slots(row.home, pid)]]

InitRapm ==
    /\ NoGame
    /\ q_in \in StintFrames
    /\ q_out = << >>

ApplyDesign ==
    /\ q_out = << >>
    /\ q_out' = << [variant |-> "rapm", X |-> build_design_matrix(q_in)] >>
    /\ OnlyResult

ApplyDesignOrapm ==
    /\ q_out = << >>
    /\ q_out' = << [variant |-> "orapm", X |-> build_design_matrix_orapm(q_in)] >>
    /\ OnlyResult

NextRapm ==
    \/ ApplyDesign
    \/ ApplyDesignOrapm

SpecRapm == InitRapm /\ [][NextRapm]_vars

\* the entry the claim gives a player in a row crediting one side
CreditEntry(pid, credited, opposing) ==
    IF pid \in SeqToSet(credited) THEN 1
    ELSE IF pid \in SeqToSet(opposing) THEN -1
    ELSE 0

\* C24: an entry is +1 for a player of the credited side, -1 for a player of
\* the opposing side and 0 for any other player column; the standard matrix
\* has one row per stint crediting home, the offensive one has row 2i
\* crediting home and row 2i+1 crediting away for stint i.
C24_DesignEntries ==
    q_out # << >> =>
        LET X == q_out[1].X
            players == get_player_list(q_in)
            n == Len(q_in)
        IN  IF q_out[1].variant = "rapm"
            THEN /\ DOMAIN X = 0..(n - 1)
                 /\ \A s \in 0..(n - 1) :
                      /\ DOMAIN X[s] = 0..(Len(players) - 1)
                      /\ \A c \in DOMAIN X[s] :
                           X[s][c] = CreditEntry(players[c + 1], q_in[s + 1].home,
                                                 q_in[s + 1].away)
            ELSE /\ DOMAIN X = 0..(2 * n - 1)
                 /\ \A s \in 0..(n - 1) : \A c \in 0..(Len(players) - 1) :
                      /\ X[2 * s][c] = CreditEntry(players[c + 1], q_in[s + 1].home,
                                                   q_in[s + 1].away)
                      /\ X[2 * s + 1][c] = CreditEntry(players[c + 1], q_in[s + 1].away,
                                                       q_in[s + 1].home)
                      /\ X[2 * s + 1][c] = -X[2 * s][c]

\* the offensive matrix of two stints in which the clubs swap sides, with a
\* player who is in the first stint only
C24_OrapmOfSwappedSides ==
    /\ q_out # << >>
    /\ q_out[1].variant = "orapm"
    /\ Len(q_in) = 2
    /\ q_in[1].home \in ClubA
    /\ q_in[2].home \in ClubB
    /\ 1 \in SeqToSet(q_in[1].home)
    /\ 1 \notin SeqToSet(q_in[2].away)
    /\ q_out[1].X[3][0] = 0
    /\ q_out[1].X[1][0] = -1

\* C25 as stated: every iteration of the scan loop advances the index by at
\* least one, or ends the scan.
C25_EveryIterationAdvances ==
    [][pc = "scan" => (i' > i \/ pc' # "scan")]_vars

\* the growth of a player's ledger from the ledger `before` to the ledger
\* `after`
LedgerGrowth(before, after, p) ==
    [on_pts_for |-> Ledger(after, p).on_pts_for - Ledger(before, p).on_pts_for,
     on_pts_against |-> Ledger(after, p).on_pts_against - Ledger(before, p).on_pts_against,
     on_pts_for_adj |-> Ledger(after, p).on_pts_for_adj - Ledger(before, p).on_pts_for_adj,
     on_pts_against_adj |->
         Ledger(after, p).on_pts_against_adj - Ledger(before, p).on_pts_against_adj,
     seconds_on |-> Ledger(after, p).seconds_on - Ledger(before, p).seconds_on]

C26_Step ==
    Len(stints') = Len(stints) + 1 =>
        LET s == stints'[Len(stints')]
        IN  /\ \A p \in SeqToSet(s.home_lineup) :
                 LedgerGrowth(boundary.stats, stats', p)
                   = [on_pts_for |-> s.home_pts, on_pts_against |-> s.away_pts,
                      on_pts_for_adj |-> s.home_pts_adj,
                      on_pts_against_adj |-> s.away_pts_adj,
                      seconds_on |-> s.seconds]
            /\ \A p \in SeqToSet(s.away_lineup) :
                 LedgerGrowth(boundary.stats, stats', p)
                   = [on_pts_for |-> s.away_pts, on_pts_against |-> s.home_pts,
                      on_pts_for_adj |-> s.away_pts_adj,
                      on_pts_against_adj |-> s.home_pts_adj,
                      seconds_on |-> s.seconds]

\* C26: when a stint is emitted, the ledger of every player of its home
\* (away) lineup has grown since the stint's start boundary by the stint's
\* home_pts (away_pts) for, away_pts (home_pts) against, the adjusted totals
\* likewise, and the stint's seconds.
C26_StintsMatchLedgers == [][C26_Step]_vars

\* a stint with points for both sides and an adjusted total that differs
\* from the actual one has been emitted
C26_StintWithAdjustedPoints ==
    /\ stints # << >>
    /\ stints[1].home_pts > 0
    /\ stints[1].away_pts > 0
    /\ stints[1].home_pts_adj # stints[1].home_pts * PointScale
    /\ stints[1].seconds > 0

\* a game step of the run has just raised
GameRaised == dpc = "loop" /\ raised' # raised /\ raised' # {}

C22_Step ==
    /\ GameRaised =>
         /\ dpc' = "loop"
         /\ todo' = Tail(todo)
         /\ SubSeq(run_rows', 1, Len(run_rows)) = run_rows
         /\ SubSeq(stint_rows', 1, Len(stint_rows)) = stint_rows
         /\ out_file' = out_file
    /\ (dpc = "loop" /\ todo # << >>) => dpc' = "loop" /\ todo' = Tail(todo)
    /\ (dpc = "loop" /\ todo = << >>) =>
         /\ SeqToSet(run_rows) \subseteq out_file'
         /\ SeqToSet(stint_rows) \subseteq stint_file'
         /\ out_file \subseteq out_file'

\* C22: a game that raises leaves the loops running: the next visit is the
\* next game of the date range, the rows gathered so far are kept, and at the
\* end of the range the rows of the games that succeeded are written.
C22_FailureDoesNotStopRun == [][C22_Step]_vars

\* the first game of the window raised and the rows of a later game of the
\* same run are in the output file
C22_LaterGameWrittenAfterFailure ==
    /\ 10 * FirstDay + 1 \in raised
    /\ 10 * FirstDay + 1 \notin out_file
    /\ 10 * (FirstDay + 1) + 1 \in out_file
    /\ run = 2
    /\ dpc = "load"

\* the number of decay updates applied for a game
TimesFolded(g) == Cardinality({ k \in 1..Len(applied) : applied[k].game_id = g })

\* C27 as stated: a game with 3PT attempts whose on/off rows are in the
\* output file has had its attempts and makes folded into the player state
\* exactly once.
C27_FoldedExactlyOnce ==
    \A g \in out_file : feed_kind[g] = "threes" => TimesFolded(g) = 1

\* the players named so far by a substitution record of team t with subType
\* in and a personId that is present and positive
ValidIns(t) ==
    { actions[k].personId :
        k \in { n \in 1..i : /\ n <= Len(actions)
                             /\ IsSubstitution(actions[n])
                             /\ actions[n].teamId = t
                             /\ Lower(actions[n].subType) = "in"
                             /\ actions[n].personId # None
                             /\ actions[n].personId > 0 } }

C28_Step ==
    (/\ pc = "scan" /\ i < Len(actions) /\ i' = i + 1
     /\ IsSubstitution(actions[i + 1])
     /\ (actions[i + 1].personId = None \/ actions[i + 1].personId <= 0))
        => lineups' = lineups

\* C28 as stated: every member of a lineup is an initial starter or was named
\* by an `in` substitution with a present, positive personId, and a
\* substitution whose personId is missing or not positive changes no lineup.
C28_MembersAreStartersOrValidIns ==
    /\ [](\A t \in DOMAIN lineups :
            lineups[t] \subseteq (StartLocals(actions).lineups[t] \cup ValidIns(t)))
    /\ [][C28_Step]_vars

(***************************************************************************)
(* run_onoff.py lines 153-167: the stints of a run merged into stints.csv  *)
(***************************************************************************)
\* the lineup pairs and durations of the stint rows drawn
StoreLineups == { << << 1, 2, 3, 4, 5 >>, << 11, 12, 13, 14, 15 >> >>,
                  << << 2, 3, 4, 5, 6 >>, << 11, 12, 13, 14, 15 >> >> }
StoreSeconds == { 60, 120 }

\* onoff.py lines 498-538: the stint rows of one game, numbered from 0
GameStintRows(game_id) ==
    UNION { { [k \in 1..n |-> [game_id |-> game_id, stint_index |-> k - 1,
                               home |-> f[k][1][1], away |-> f[k][1][2],
                               seconds |-> f[k][2]]] :
                f \in [1..n -> StoreLineups \X StoreSeconds] } : n \in 1..MaxStints }

\* the file before the run: absent, or holding the rows of an earlier run
\* for the same game or for another one
StoredBefore ==
    { << >> } \cup GameStintRows(11) \cup { e \in GameStintRows(21) : Len(e) = 1 }

\* the columns of the subset of drop_duplicates
DedupKey(row) == << row.game_id, row.home, row.away, row.seconds >>

\* lines 160-164: drop_duplicates(subset=..., keep="last")
drop_duplicates(frame) ==
    SelectSeq([k \in 1..Len(frame) |-> [row |-> frame[k], pos |-> k]],
              LAMBDA e : \A m \in (e.pos + 1)..Len(frame) :
                             DedupKey(frame[m]) # DedupKey(e.row))

\* lines 154-164: the new rows appended to the stored ones, then deduplicated
MergeStints(existing, new) ==
    LET kept == drop_duplicates(existing \o new)
    IN  [k \in 1..Len(kept) |-> kept[k].row]

InitStore ==
    /\ NoGame
    /\ q_in \in [existing : StoredBefore,
                 new : GameStintRows(11)]
    /\ q_out = << >>

ApplyMerge ==
    /\ q_out = << >>
    /\ q_out' = << MergeStints(q_in.existing, q_in.new) >>
    /\ OnlyResult

NextStore == ApplyMerge

SpecStore == InitStore /\ [][NextStore]_vars

\* C29 as stated: after the merge the store holds every stint emitted for the
\* game processed in the run.
C29_EveryEmittedStintStored ==
    q_out # << >> =>
        \A k \in 1..Len(q_in.new) : \E m \in 1..Len(q_out[1]) :
            /\ q_out[1][m].game_id = q_in.new[k].game_id
            /\ q_out[1][m].stint_index = q_in.new[k].stint_index


\* ---------------------------------------------------------------------------
\* Lineup reconstruction of the audit tools.
\* build_game_audit_html.py, lines 163-191: the batch is collected by comparing
\* each record's teamId with the first record's teamId as read, and its
\* records are applied one after the other in list order.
\* ---------------------------------------------------------------------------
RECURSIVE HtmlBatchEnd(_, _, _, _)
HtmlBatchEnd(j, team_id, period, clock) ==
    IF j < Len(actions)
       /\ Lower(actions[j + 1].actionType) = "substitution"
       /\ actions[j + 1].teamId = team_id
       /\ actions[j + 1].period = period
       /\ actions[j + 1].clock = clock
    THEN HtmlBatchEnd(j + 1, team_id, period, clock)
    ELSE j

RECURSIVE HtmlApplyBatch(_, _)
HtmlApplyBatch(lineup, batch) ==
    IF batch = << >>
    THEN lineup
    ELSE LET b == Head(batch)
             after == IF b.personId = None THEN lineup
                      ELSE IF Lower(b.subType) = "out" THEN lineup \ { PyInt(b.personId) }
                      ELSE IF Lower(b.subType) = "in" THEN lineup \cup { PyInt(b.personId) }
                      ELSE lineup
         IN  HtmlApplyBatch(after, Tail(batch))

\* audit_onoff.py, lines 173-208: the actions are visited by a for loop, so every
\* record of a batch collects the batch that starts at itself and applies its
\* outs and then its ins; the index is not moved past the batch.
RECURSIVE AuditOnoffApplyBatch(_, _)
AuditOnoffApplyBatch(lineup, batch) ==
    IF batch = << >>
    THEN lineup
    ELSE AuditOnoffApplyBatch(ApplyBatch(lineup, batch), Tail(batch))

\* The batch the scan is about to apply, with the team it belongs to.
BatchAhead ==
    LET a == actions[i + 1]
        team_id == PyInt(a.teamId)
    IN  [team_id |-> team_id,
         batch |-> SubSeq(actions, i + 1, BatchEnd(i, team_id, a.period, a.clock)),
         html_batch |-> SubSeq(actions, i + 1, HtmlBatchEnd(i, a.teamId, a.period, a.clock))]

BatchApplied ==
    /\ pc = "scan" /\ pc' = "scan"
    /\ i < Len(actions) /\ i' > i
    /\ IsSubstitution(actions[i + 1])
    /\ actions[i + 1].teamId # None
    /\ PyInt(actions[i + 1].teamId) \in DOMAIN lineups

C30_HtmlStep ==
    BatchApplied =>
        lineups'[BatchAhead.team_id]
            = HtmlApplyBatch(lineups[BatchAhead.team_id], BatchAhead.html_batch)

C30_AuditOnoffStep ==
    BatchApplied =>
        lineups'[BatchAhead.team_id]
            = AuditOnoffApplyBatch(lineups[BatchAhead.team_id], BatchAhead.batch)

C30_HtmlAgrees == [][C30_HtmlStep]_vars

C30_AuditOnoffAgrees == [][C30_AuditOnoffStep]_vars

\* C30 as stated: started from the lineups the scan has before a substitution
\* batch, both audit tools have after the batch the lineups the scan has.
C30_AuditLineupsAgree == [][C30_HtmlStep /\ C30_AuditOnoffStep]_vars


\* The three reconstructions agree on every batch in which no player is named
\* both by an `in` and by an `out` record.
C30_AgreeWithoutReturningPlayer ==
    [][(BatchApplied /\ BatchPids(BatchAhead.batch, "out") \cap BatchPids(BatchAhead.batch, "in") = {})
          => (C30_HtmlStep /\ C30_AuditOnoffStep)]_vars

====
